---- MODULE Spec2Model ----
(***************************************************************************)
(* Booking back end: availability engine (bookings.Service), booking       *)
(* handlers (bookings.Handler) and payment-status derivation               *)
(* (payments.Service), modelled over one DynamoDB table.                   *)
(*                                                                         *)
(* Dates are day numbers; day 1 is 2026-02-01.  Clock times are the        *)
(* strings of the source, written as sequences of one-character strings.   *)
(* Money is modelled in whole currency units.                              *)
(***************************************************************************)
EXTENDS Integers, Sequences, FiniteSets, TLC

VARIABLES
    bookings,    \* table items BOOKING#<id>/METADATA: id -> Booking
    payments,    \* table items PAYMENT#<bookingId>/...: bookingId -> sequence of amounts
    properties,  \* table items PROPERTY#<id>/METADATA: id -> Property
    resp,        \* the last handler response: operation, HTTP status, error message
    avail,       \* the last CheckAvailability call made directly: arguments and result
    summary,     \* the last PaymentSummary returned to a caller
    today,       \* time.Now().Truncate(24 * time.Hour), as a day number
    notificationService,  \* Handler.notificationService is set (TRUE) or nil (FALSE)
    dispatches,  \* the notification goroutines the handlers have started, in order
    notifications,  \* table items USER#<phone>/NOTIFICATION#..., in order of creation
    inviteCodes, \* table items INVITE#<code>/PROPERTY#<propertyId>, by code
    storageAccessed,  \* the last request handled reached the storage layer before it returned
    report,  \* the last analytics aggregate returned, with the lookups that failed for it
    inflight  \* the requests being handled step by step: process -> position and locals

vars == <<bookings, payments, properties, resp, avail, summary, today, inflight, report, storageAccessed,
          notificationService, dispatches, notifications, inviteCodes>>

----------------------------------------------------------------------------
(* Bounds *)

MaxStored == 2      \* bookings in the store of the availability specification
MaxBookings == 2    \* bookings the handlers may create
MaxPayments == 2    \* payments logged per booking
MaxDispatches == 2  \* notification goroutines started
MaxRequests == 2    \* requests handled at the same time

----------------------------------------------------------------------------
(* Calendar: time.Time values at UTC midnight, and their "2006-01-02" form *)

MonthLen == <<31, 28, 31, 30, 31, 30, 31, 31, 30, 31, 30, 31>>

RECURSIVE RollMonths(_, _, _)
\* year/month/day of the date that is n days (n >= 0) after the first of month m of year y
RollMonths(y, m, n) ==
    IF n < MonthLen[m] THEN <<y, m, n + 1>>
    ELSE IF m = 12 THEN RollMonths(y + 1, 1, n - MonthLen[m])
    ELSE RollMonths(y, m + 1, n - MonthLen[m])

\* checkIn.Format("2006-01-02"): zero-padded year-month-day, so that string
\* order is the order of the <<year, month, day>> triples
DateTable == [d \in (0 - 120)..240 |-> RollMonths(2025, 1, d + (365 + 30))]

FormatDate(d) == DateTable[d]

\* string comparison a <= b of two formatted dates
KeyLE(a, b) ==
    \/ a[1] < b[1]
    \/ a[1] = b[1] /\ a[2] < b[2]
    \/ a[1] = b[1] /\ a[2] = b[2] /\ a[3] <= b[3]

\* t.AddDate(0, 0, n)
AddDate(d, n) == d + n

RECURSIVE DaysBeforeMonth(_)
DaysBeforeMonth(m) == IF m = 1 THEN 0 ELSE DaysBeforeMonth(m - 1) + MonthLen[m - 1]

\* time.Parse("2006-01-02", text) for a request string given as <<year, month, day>>
\* (years 2025 and later, none of them a leap year within the sample dates):
\* month and day out of range are errors
ParseDate(text) ==
    IF Len(text) # 3 THEN [ok |-> FALSE, day |-> 0]
    ELSE IF text[2] \notin 1..12 THEN [ok |-> FALSE, day |-> 0]
    ELSE IF text[3] \notin 1..MonthLen[text[2]] THEN [ok |-> FALSE, day |-> 0]
    ELSE [ok |-> TRUE,
          day |-> (text[1] - 2025) * 365 + DaysBeforeMonth(text[2]) + text[3] - 1 - (365 + 30)]

----------------------------------------------------------------------------
(* Clock strings and timeToMinutes *)

Digits == {"0", "1", "2", "3", "4", "5", "6", "7", "8", "9"}

DigitVal == ("0" :> 0) @@ ("1" :> 1) @@ ("2" :> 2) @@ ("3" :> 3) @@ ("4" :> 4) @@
            ("5" :> 5) @@ ("6" :> 6) @@ ("7" :> 7) @@ ("8" :> 8) @@ ("9" :> 9)

isDigit(s, i) == i <= Len(s) /\ s[i] \in Digits

\* time.Parse("15:04", s): an hour of one or two digits below 24, a colon,
\* a minute of exactly two digits below 60, and nothing after it
ParseClock(s) ==
    LET bad == [ok |-> FALSE, hour |-> 0, minute |-> 0]
    IN  IF ~isDigit(s, 1) THEN bad
        ELSE LET two  == isDigit(s, 2)
                 hour == IF two THEN DigitVal[s[1]] * 10 + DigitVal[s[2]] ELSE DigitVal[s[1]]
                 c    == IF two THEN 3 ELSE 2
             IN  IF hour >= 24 THEN bad
                 ELSE IF ~(c <= Len(s) /\ s[c] = ":") THEN bad
                 ELSE IF ~(isDigit(s, c + 1) /\ isDigit(s, c + 2)) THEN bad
                 ELSE LET minute == DigitVal[s[c + 1]] * 10 + DigitVal[s[c + 2]]
                      IN  IF minute >= 60 THEN bad
                          ELSE IF Len(s) > c + 2 THEN bad
                          ELSE [ok |-> TRUE, hour |-> hour, minute |-> minute]

timeToMinutes(tStr, defaultMinutes) ==
    IF tStr = <<>> THEN defaultMinutes
    ELSE LET t == ParseClock(tStr)
         IN  IF ~t.ok THEN defaultMinutes
             ELSE t.hour * 60 + t.minute

defaultCheckInMinutes == 14 * 60
defaultCheckOutMinutes == 11 * 60

----------------------------------------------------------------------------
(* Booking statuses *)

StatusPending == "pending"
StatusPartial == "partial"
StatusSettled == "settled"
StatusCancelled == "cancelled"

IsValid(s) == s \in {StatusPending, StatusPartial, StatusSettled, StatusCancelled}

----------------------------------------------------------------------------
(* Availability engine *)

LookbackDays == 90

\* Query on GSI1: GSI1PK = PROPERTY#<propertyID> AND GSI1SK BETWEEN :startDate AND :endDate
ListBookingsByProperty(store, propertyID, start, end) ==
    {id \in DOMAIN store :
        /\ store[id].gsi1pk = propertyID
        /\ KeyLE(FormatDate(start), store[id].gsi1sk)
        /\ KeyLE(store[id].gsi1sk, FormatDate(end))}

\* BookingBlocks with the check-in tie-break made inclusive
BookingBlocksInclusiveCheckIn(b, checkIn, checkOut, newCheckInMins, newCheckOutMins) ==
    IF b.status = StatusCancelled THEN FALSE
    ELSE IF ~(checkIn > b.checkOut) /\ ~(checkOut < b.checkIn)
    THEN IF checkIn = b.checkOut
         THEN newCheckInMins <= timeToMinutes(b.checkOutTime, defaultCheckOutMinutes)
         ELSE IF checkOut = b.checkIn
         THEN newCheckOutMins > timeToMinutes(b.checkInTime, defaultCheckInMinutes)
         ELSE TRUE
    ELSE FALSE

\* BookingBlocks with the check-out tie-break made inclusive
BookingBlocksInclusiveCheckOut(b, checkIn, checkOut, newCheckInMins, newCheckOutMins) ==
    IF b.status = StatusCancelled THEN FALSE
    ELSE IF ~(checkIn > b.checkOut) /\ ~(checkOut < b.checkIn)
    THEN IF checkIn = b.checkOut
         THEN newCheckInMins < timeToMinutes(b.checkOutTime, defaultCheckOutMinutes)
         ELSE IF checkOut = b.checkIn
         THEN newCheckOutMins >= timeToMinutes(b.checkInTime, defaultCheckInMinutes)
         ELSE TRUE
    ELSE FALSE

\* BookingBlocks without the skip of cancelled bookings
BookingBlocksCountingCancelled(b, checkIn, checkOut, newCheckInMins, newCheckOutMins) ==
    IF ~(checkIn > b.checkOut) /\ ~(checkOut < b.checkIn)
    THEN IF checkIn = b.checkOut
         THEN newCheckInMins < timeToMinutes(b.checkOutTime, defaultCheckOutMinutes)
         ELSE IF checkOut = b.checkIn
         THEN newCheckOutMins > timeToMinutes(b.checkInTime, defaultCheckInMinutes)
         ELSE TRUE
    ELSE FALSE

\* BookingBlocks with the two halves of the overlap test joined by "or"
BookingBlocksEitherSide(b, checkIn, checkOut, newCheckInMins, newCheckOutMins) ==
    IF b.status = StatusCancelled THEN FALSE
    ELSE IF ~(checkIn > b.checkOut) \/ ~(checkOut < b.checkIn)
    THEN IF checkIn = b.checkOut
         THEN newCheckInMins < timeToMinutes(b.checkOutTime, defaultCheckOutMinutes)
         ELSE IF checkOut = b.checkIn
         THEN newCheckOutMins > timeToMinutes(b.checkInTime, defaultCheckInMinutes)
         ELSE TRUE
    ELSE FALSE

\* BookingBlocks without the tie-break on the candidate's check-in side
BookingBlocksNoCheckInTieBreak(b, checkIn, checkOut, newCheckInMins, newCheckOutMins) ==
    IF b.status = StatusCancelled THEN FALSE
    ELSE IF ~(checkIn > b.checkOut) /\ ~(checkOut < b.checkIn)
    THEN IF checkOut = b.checkIn
         THEN newCheckOutMins > timeToMinutes(b.checkInTime, defaultCheckInMinutes)
         ELSE TRUE
    ELSE FALSE

\* the body of the loop over the fetched bookings: TRUE when the loop returns
\* false (conflict) at booking b, FALSE when it continues
BookingBlocks(b, checkIn, checkOut, newCheckInMins, newCheckOutMins) ==
    IF b.status = StatusCancelled THEN FALSE
    ELSE IF ~(checkIn > b.checkOut) /\ ~(checkOut < b.checkIn)
    THEN IF checkIn = b.checkOut
         THEN newCheckInMins < timeToMinutes(b.checkOutTime, defaultCheckOutMinutes)
         ELSE IF checkOut = b.checkIn
         THEN newCheckOutMins > timeToMinutes(b.checkInTime, defaultCheckInMinutes)
         ELSE TRUE
    ELSE FALSE

\* the loop returns false at the first blocking booking and true when there is none
CheckAvailability(store, propertyID, checkIn, checkOut, checkInTime, checkOutTime) ==
    LET fetched == ListBookingsByProperty(store, propertyID,
                       AddDate(checkIn, -LookbackDays), AddDate(checkOut, 1))
        newCheckInMins  == timeToMinutes(checkInTime, defaultCheckInMinutes)
        newCheckOutMins == timeToMinutes(checkOutTime, defaultCheckOutMinutes)
    IN  ~\E id \in fetched :
            BookingBlocks(store[id], checkIn, checkOut, newCheckInMins, newCheckOutMins)

----------------------------------------------------------------------------
(* Items as the services write them *)

NoClock == <<>>

\* Service.CreateBooking: keys, nights and total filled in before PutItem
CreateBooking(booking) ==
    LET numNights == IF booking.numNights = 0
                     THEN booking.checkOut - booking.checkIn
                     ELSE booking.numNights
        totalAmount == IF booking.totalAmount = 0 /\ booking.pricePerNight > 0
                       THEN booking.pricePerNight * numNights
                       ELSE booking.totalAmount
        status == IF booking.status = "" THEN StatusPending ELSE booking.status
    IN  [booking EXCEPT !.gsi1pk = booking.propertyId,
                        !.gsi1sk = FormatDate(booking.checkIn),
                        !.numNights = numNights,
                        !.totalAmount = totalAmount,
                        !.status = status]

\* the Booking struct, zero-valued except for the fields given
Booking(propertyId, checkIn, checkOut, checkInTime, checkOutTime, pricePerNight, totalAmount, status) ==
    [propertyId |-> propertyId, checkIn |-> checkIn, checkOut |-> checkOut,
     checkInTime |-> checkInTime, checkOutTime |-> checkOutTime,
     numNights |-> 0, pricePerNight |-> pricePerNight, totalAmount |-> totalAmount,
     status |-> status, bookedBy |-> "", inviteCode |-> "", advanceAmount |-> 0,
     gsi1pk |-> "", gsi1sk |-> <<0, 0, 0>>]

----------------------------------------------------------------------------
(* Responses *)

\* no payment item for any booking id
NoPayments == [i \in 1..MaxBookings |-> <<>>]

\* ErrorResponse / APIResponse: HTTP status and error message ("" on success)
Response(code, msg) == [code |-> code, msg |-> msg]

NoResp == [op |-> "none", code |-> 0, msg |-> ""]
NoAvail == [called |-> FALSE, propertyID |-> "", checkIn |-> 0, checkOut |-> 0,
            checkInTime |-> NoClock, checkOutTime |-> NoClock, result |-> FALSE]
NoSummary == [bookingId |-> 0, totalAmount |-> 0, totalPaid |-> 0, totalDue |-> 0,
              status |-> "none", paymentCount |-> 0]

\* no request is being handled
Idle == [pc |-> "idle"]
NoRequests == [p \in 1..MaxRequests |-> Idle]

\* no analytics call made yet
NoReport == [op |-> "none", ok |-> FALSE, phone |-> "", propsOk |-> FALSE, userOk |-> FALSE, failedListings |-> {}, failedLookups |-> {}, totalBookings |-> 0, totalRevenue |-> 0, totalCollected |-> 0, totalPending |-> 0, todayCheckIns |-> 0, todayCheckOuts |-> 0, pendingApprovals |-> 0, pendingPayments |-> 0, totalDueAmount |-> 0]

Property(isActive, pricePerNight) ==
    [ownerId |-> "owner1", isActive |-> isActive, pricePerNight |-> pricePerNight]

\* two properties at 5000 a night, the second one taken off the market
\* the fields of an InviteCode item that ValidateInviteCode reads; expiresAt is
\* a day number
InviteCode(propertyId, isActive, expiresAt, maxUses) ==
    [propertyId |-> propertyId, isActive |-> isActive, expiresAt |-> expiresAt,
     maxUses |-> maxUses, usedCount |-> 0]

\* codes as GenerateInviteCode leaves them (usedCount 0, active): one use on p1,
\* unlimited use on p1, one on p1 that expired on day 1, and an unlimited one
\* for p2
InitInviteCodes ==
    [c \in {"once", "free", "old", "other"} |->
        IF c = "once" THEN InviteCode("p1", TRUE, 200, 1)
        ELSE IF c = "free" THEN InviteCode("p1", TRUE, 200, 0)
        ELSE IF c = "old" THEN InviteCode("p1", TRUE, 1, 0)
        ELSE InviteCode("p2", TRUE, 200, 0)]

InitProperties == [p \in {"p1", "p2"} |-> Property(p = "p1", 5000)]

----------------------------------------------------------------------------
(* Specification SpecAvail: CheckAvailability applied to stores and          *)
(* candidates drawn from sample dates and clock strings                     *)

AvailDates == {1, 3, 5, 7}
AvailRanges == {r \in AvailDates \X AvailDates : r[1] < r[2]}

\* <<check-in time, check-out time>> samples: absent, explicit, unparsable
ClockPairs == <<
    <<NoClock, NoClock>>,
    <<<<"0", "9", ":", "0", "0">>, <<"1", "1", ":", "0", "0">>>>,
    <<<<"1", "1", ":", "0", "0">>, <<"1", "6", ":", "0", "0">>>>,
    <<<<"2", "p", "m">>, <<"2", "5", ":", "0", "0">>>> >>

AvailStatuses == <<StatusPending, StatusCancelled>>

AvailChoices == AvailRanges \X (1..Len(ClockPairs)) \X (1..Len(AvailStatuses))

ChoiceCode(c) == ((c[1][1] * 10 + c[1][2]) * 10 + c[2]) * 10 + c[3]

StoredBooking(c) ==
    CreateBooking(Booking("p1", c[1][1], c[1][2], ClockPairs[c[2]][1], ClockPairs[c[2]][2],
                          5000, 0, AvailStatuses[c[3]]))

InitAvail ==
    /\ \E n \in 0..MaxStored :
         \E f \in [1..n -> AvailChoices] :
            /\ \A i \in 1..(n - 1) : ChoiceCode(f[i]) <= ChoiceCode(f[i + 1])
            /\ bookings = [i \in 1..n |-> StoredBooking(f[i])]
    /\ payments = NoPayments
    /\ properties = InitProperties
    /\ resp = NoResp
    /\ avail = NoAvail
    /\ summary = NoSummary
    /\ today = 1
    /\ notificationService = FALSE
    /\ inviteCodes = InitInviteCodes
    /\ inflight = NoRequests
    /\ report = NoReport
    /\ storageAccessed = FALSE
    /\ dispatches = <<>>
    /\ notifications = <<>>

\* a direct call of Service.CheckAvailability; the call writes nothing, so a
\* second call in the same behaviour would see the store the first one saw
CallCheckAvailability(propertyID, checkIn, checkOut, checkInTime, checkOutTime) ==
    /\ ~avail.called
    /\ avail' = [called |-> TRUE, propertyID |-> propertyID,
                 checkIn |-> checkIn, checkOut |-> checkOut,
                 checkInTime |-> checkInTime, checkOutTime |-> checkOutTime,
                 result |-> CheckAvailability(bookings, propertyID, checkIn, checkOut,
                                              checkInTime, checkOutTime)]
    /\ UNCHANGED <<bookings, payments, properties, resp, summary, today, inflight, report, storageAccessed>>
    /\ UNCHANGED <<notificationService, inviteCodes, dispatches, notifications>>

NextAvail ==
    \/ \E r \in AvailRanges, k \in 1..Len(ClockPairs) :
          CallCheckAvailability("p1", r[1], r[2], ClockPairs[k][1], ClockPairs[k][2])
    \/ \E r \in AvailRanges :
          CallCheckAvailability("p2", r[1], r[2], NoClock, NoClock)

SpecAvail == InitAvail /\ [][NextAvail]_vars

----------------------------------------------------------------------------
(* Properties of the availability engine, checked under SpecAvail *)

\* the minutes the sample clock strings stand for; an absent or unparsable
\* string stands for the default
ClockMinutes(tStr, defaultMinutes) ==
    CASE tStr = <<"0", "9", ":", "0", "0">> -> 540
      [] tStr = <<"1", "1", ":", "0", "0">> -> 660
      [] tStr = <<"1", "6", ":", "0", "0">> -> 960
      [] OTHER -> defaultMinutes

\* the bookings the last call examined
Examined ==
    ListBookingsByProperty(bookings, avail.propertyID,
                           avail.checkIn - 90, avail.checkOut + 1)

\* the loop's verdict on stored booking b for the last call's candidate
Verdict(b) ==
    BookingBlocks(b, avail.checkIn, avail.checkOut,
                  timeToMinutes(avail.checkInTime, defaultCheckInMinutes),
                  timeToMinutes(avail.checkOutTime, defaultCheckOutMinutes))

Active(b) == b.status # "cancelled"

\* the candidate of the last call as a stored booking
CandidateAsBooking ==
    Booking(avail.propertyID, avail.checkIn, avail.checkOut,
            avail.checkInTime, avail.checkOutTime, 0, 0, "pending")

\* C2: an examined active booking whose check-out date is the candidate's
\* check-in date is a conflict exactly when the candidate's check-in minutes
\* (default 14:00) are below the booking's check-out minutes (default 11:00);
\* a conflict makes the call answer false, and when it is the only examined
\* booking and no conflict the call answers true
C2_TurnoverAtCheckIn ==
    avail.called =>
        \A id \in Examined :
            LET b == bookings[id]
                early == ClockMinutes(avail.checkInTime, 840)
                             < ClockMinutes(b.checkOutTime, 660)
            IN  (Active(b) /\ avail.checkIn = b.checkOut) =>
                    /\ Verdict(b) <=> early
                    /\ early => ~avail.result
                    /\ (Examined = {id} /\ ~early) => avail.result

C2_Witness ==
    /\ avail.called
    /\ avail.checkInTime = <<"0", "9", ":", "0", "0">>
    /\ ~avail.result
    /\ \E id \in Examined :
          /\ Examined = {id}
          /\ Active(bookings[id])
          /\ bookings[id].checkOut = avail.checkIn
          /\ bookings[id].checkOutTime = <<"1", "1", ":", "0", "0">>

\* C3: an examined active booking whose check-in date is the candidate's
\* check-out date is a conflict exactly when the candidate's check-out minutes
\* (default 11:00) are above the booking's check-in minutes (default 14:00);
\* equal minutes are no conflict
C3_TurnoverAtCheckOut ==
    avail.called =>
        \A id \in Examined :
            LET b == bookings[id]
                late == ClockMinutes(avail.checkOutTime, 660)
                            > ClockMinutes(b.checkInTime, 840)
            IN  (Active(b) /\ avail.checkOut = b.checkIn) =>
                    /\ Verdict(b) <=> late
                    /\ late => ~avail.result
                    /\ (Examined = {id} /\ ~late) => avail.result

C3_Witness ==
    /\ avail.called
    /\ avail.result
    /\ \E id \in Examined :
          /\ Examined = {id}
          /\ Active(bookings[id])
          /\ bookings[id].checkIn = avail.checkOut
          /\ bookings[id].checkInTime # NoClock
          /\ ClockMinutes(avail.checkOutTime, 660)
                = ClockMinutes(bookings[id].checkInTime, 840)

\* C4: the answer with a cancelled booking in the store is the answer with
\* that booking removed
C4_CancelledNeverBlocks ==
    avail.called =>
        \A id \in DOMAIN bookings :
            bookings[id].status = "cancelled" =>
                avail.result =
                    CheckAvailability([j \in DOMAIN bookings \ {id} |-> bookings[j]],
                                      avail.propertyID, avail.checkIn, avail.checkOut,
                                      avail.checkInTime, avail.checkOutTime)

C4_Witness ==
    /\ avail.called
    /\ avail.result
    /\ \E id \in DOMAIN bookings :
          /\ bookings[id].status = "cancelled"
          /\ bookings[id].checkIn < avail.checkOut
          /\ bookings[id].checkOut > avail.checkIn
    /\ \E id \in DOMAIN bookings : Active(bookings[id])

\* C5: when every active booking of the property ends before the candidate's
\* check-in date or starts after its check-out date, the call answers true
C5_NoSharedDateIsAvailable ==
    avail.called =>
        ((\A id \in DOMAIN bookings :
              (Active(bookings[id]) /\ bookings[id].propertyId = avail.propertyID) =>
                  \/ bookings[id].checkOut < avail.checkIn
                  \/ bookings[id].checkIn > avail.checkOut)
         => avail.result)

C5_Witness ==
    /\ avail.called
    /\ avail.result
    /\ avail.checkInTime # NoClock
    /\ \E id \in DOMAIN bookings : Active(bookings[id])
    /\ \A id \in DOMAIN bookings :
          \/ bookings[id].checkOut < avail.checkIn
          \/ bookings[id].checkIn > avail.checkOut

\* C6: for an active stored booking B and the candidate A, the verdict on B
\* with A as candidate is the verdict on A (stored) with B as candidate
C6_ConflictSymmetric ==
    avail.called =>
        \A id \in DOMAIN bookings :
            LET b == bookings[id]
            IN  Active(b) =>
                    (Verdict(b) <=>
                        BookingBlocks(CandidateAsBooking, b.checkIn, b.checkOut,
                            timeToMinutes(b.checkInTime, defaultCheckInMinutes),
                            timeToMinutes(b.checkOutTime, defaultCheckOutMinutes)))

C6_Witness ==
    /\ avail.called
    /\ \E id \in DOMAIN bookings :
          /\ Active(bookings[id])
          /\ bookings[id].checkOut = avail.checkIn
          /\ Verdict(bookings[id])
    /\ \E id \in DOMAIN bookings :
          /\ Active(bookings[id])
          /\ bookings[id].checkIn = avail.checkOut
          /\ ~Verdict(bookings[id])

----------------------------------------------------------------------------
(* Request handlers.  Each action is one request handled from start to end; *)
(* requests are authenticated and authorised, and storage calls succeed.    *)

\* the JWT claims of the caller of a request
Caller(phone, role) == [phone |-> phone, role |-> role]

\* table items USER#<phone>/PROFILE: the owner of both properties, an agent
\* linked to p1, an agent linked to nothing, and an admin
Users ==
    [phone \in {"owner1", "agent1", "agent2", "admin1"} |->
        [role |-> CASE phone = "owner1" -> "owner"
                    [] phone = "admin1" -> "admin"
                    [] OTHER -> "agent",
         managedProperties |-> CASE phone = "owner1" -> {"p1", "p2"}
                                 [] phone = "agent1" -> {"p1"}
                                 [] OTHER -> {}]]

\* users.Service.IsAuthorizedForProperty
IsAuthorizedForProperty(phone, propertyID) ==
    IF phone \notin DOMAIN Users THEN FALSE
    ELSE IF Users[phone].role = "admin" THEN TRUE
    ELSE propertyID \in Users[phone].managedProperties

TypeBookingCreated == "booking_created"

\* statusToNotificationType
statusToNotificationType(status) ==
    CASE status = StatusSettled -> "booking_settled"
      [] status = StatusPartial -> "booking_partial"
      [] status = StatusCancelled -> "booking_cancelled"
      [] OTHER -> "booking_status_changed"

\* a goroutine started by a handler, with the values its closure captured;
\* ownerId is only captured by the one HandleCreateBooking starts
Dispatch(kind, notifType, bookingId, propertyId, updater, bookedBy, ownerId) ==
    [kind |-> kind, notifType |-> notifType, bookingId |-> bookingId,
     propertyId |-> propertyId, updater |-> updater, bookedBy |-> bookedBy,
     ownerId |-> ownerId, state |-> "started"]

\* notifications.Service.CreateBookingNotification: the item it puts
Notification(userPhone, notifType, bookingId, propertyId) ==
    [userPhone |-> userPhone, type |-> notifType, bookingId |-> bookingId,
     propertyId |-> propertyId]

None == [set |-> FALSE, val |-> 0]
NoText == [set |-> FALSE, val |-> <<>>]
Some(v) == [set |-> TRUE, val |-> v]

\* uuid.New(): the next unused booking id
NextId == Len(bookings) + 1

\* Service.GetBooking: nil for an absent item
Exists(id) == id \in DOMAIN bookings

\* Service.ValidateInviteCode: the error it returns, as the handler reports it
\* ("" for nil)
ValidateInviteCode(code) ==
    IF code \notin DOMAIN inviteCodes THEN "Invalid invite code: invite code not found"
    ELSE IF ~inviteCodes[code].isActive
    THEN "Invalid invite code: invite code is no longer active"
    ELSE IF today > inviteCodes[code].expiresAt
    THEN "Invalid invite code: invite code has expired"
    ELSE IF inviteCodes[code].maxUses > 0
            /\ inviteCodes[code].usedCount >= inviteCodes[code].maxUses
    THEN "Invalid invite code: invite code has reached maximum uses"
    ELSE ""

\* Service.UseInviteCode: SET usedCount = usedCount + :inc
UseInviteCode(code) == [inviteCodes EXCEPT ![code].usedCount = @ + 1]

\* a variant that does not look at the property's active flag
CreateBookingOutcomeIgnoringActive(req) ==
    IF \/ req.propertyId = "" \/ req.guestName = "" \/ req.guestPhone = ""
       \/ req.checkIn = <<>> \/ req.checkOut = <<>>
    THEN Response(400, "required fields")
    ELSE IF ~ParseDate(req.checkIn).ok THEN Response(400, "Invalid checkIn date format")
    ELSE IF ~ParseDate(req.checkOut).ok THEN Response(400, "Invalid checkOut date format")
    ELSE LET checkIn  == ParseDate(req.checkIn).day
             checkOut == ParseDate(req.checkOut).day
         IN  IF checkIn > checkOut \/ checkIn = checkOut
             THEN Response(400, "Check-out must be after check-in")
             ELSE IF checkIn < today THEN Response(400, "Check-in cannot be in the past")
             ELSE IF req.propertyId \notin DOMAIN properties
             THEN Response(404, "Property not found")
             ELSE IF ~CheckAvailability(bookings, req.propertyId, checkIn, checkOut,
                                        NoClock, NoClock)
             THEN Response(409, "Property is not available for the selected dates")
             ELSE IF req.inviteCode # "" /\ ValidateInviteCode(req.inviteCode) # ""
             THEN Response(400, ValidateInviteCode(req.inviteCode))
             ELSE IF req.inviteCode # ""
                     /\ inviteCodes[req.inviteCode].propertyId # req.propertyId
             THEN Response(400, "Invite code is for a different property")
             ELSE Response(201, "")

\* Handler.HandleCreateBooking up to the availability check: the response the
\* request ends with (201 when the booking is to be created)
CreateBookingOutcome(req) ==
    IF \/ req.propertyId = "" \/ req.guestName = "" \/ req.guestPhone = ""
       \/ req.checkIn = <<>> \/ req.checkOut = <<>>
    THEN Response(400, "required fields")
    ELSE IF ~ParseDate(req.checkIn).ok THEN Response(400, "Invalid checkIn date format")
    ELSE IF ~ParseDate(req.checkOut).ok THEN Response(400, "Invalid checkOut date format")
    ELSE LET checkIn  == ParseDate(req.checkIn).day
             checkOut == ParseDate(req.checkOut).day
         IN  IF checkIn > checkOut \/ checkIn = checkOut
             THEN Response(400, "Check-out must be after check-in")
             ELSE IF checkIn < today THEN Response(400, "Check-in cannot be in the past")
             ELSE IF req.propertyId \notin DOMAIN properties
             THEN Response(404, "Property not found")
             ELSE IF ~properties[req.propertyId].isActive
             THEN Response(400, "Property is not active")
             ELSE IF ~CheckAvailability(bookings, req.propertyId, checkIn, checkOut,
                                        NoClock, NoClock)
             THEN Response(409, "Property is not available for the selected dates")
             ELSE IF req.inviteCode # "" /\ ValidateInviteCode(req.inviteCode) # ""
             THEN Response(400, ValidateInviteCode(req.inviteCode))
             ELSE IF req.inviteCode # ""
                     /\ inviteCodes[req.inviteCode].propertyId # req.propertyId
             THEN Response(400, "Invite code is for a different property")
             ELSE Response(201, "")

\* Handler.HandleCreateBooking: the request passes the checks made on the request
\* alone, after which the handler calls GetProperty
CreateBookingReachesStorage(req) ==
    /\ ~(\/ req.propertyId = "" \/ req.guestName = "" \/ req.guestPhone = ""
         \/ req.checkIn = <<>> \/ req.checkOut = <<>>)
    /\ ParseDate(req.checkIn).ok
    /\ ParseDate(req.checkOut).ok
    /\ ~(ParseDate(req.checkIn).day > ParseDate(req.checkOut).day
         \/ ParseDate(req.checkIn).day = ParseDate(req.checkOut).day)
    /\ ~(ParseDate(req.checkIn).day < today)

\* the HTTP status of that response
CreateBookingStatus(req) == CreateBookingOutcome(req).code

\* the Booking struct the handler builds for a request that passed every check
CreateBookingItem(req) ==
    LET property == properties[req.propertyId]
        pricePerNight == IF req.pricePerNight > 0 THEN req.pricePerNight
                         ELSE property.pricePerNight
    IN  [Booking(req.propertyId, ParseDate(req.checkIn).day, ParseDate(req.checkOut).day,
                 NoClock, NoClock, pricePerNight, req.totalAmount, StatusPending)
            EXCEPT !.bookedBy = req.caller.phone, !.inviteCode = req.inviteCode]

\* POST /bookings
HandleCreateBooking(req) ==
    \E out \in {CreateBookingOutcome(req)},
       useOk \in IF req.inviteCode = "" THEN {TRUE} ELSE BOOLEAN :
        /\ out.code = 201 => NextId <= MaxBookings
        /\ (out.code = 201 /\ notificationService) => Len(dispatches) < MaxDispatches
        /\ bookings' = IF out.code = 201
                       THEN Append(bookings, CreateBooking(CreateBookingItem(req)))
                       ELSE bookings
        /\ dispatches' = IF out.code = 201 /\ notificationService
                         THEN Append(dispatches,
                                     Dispatch("created", TypeBookingCreated, NextId,
                                              req.propertyId, req.caller.phone,
                                              req.caller.phone,
                                              properties[req.propertyId].ownerId))
                         ELSE dispatches
        /\ inviteCodes' = IF out.code = 201 /\ req.inviteCode # "" /\ useOk
                          THEN UseInviteCode(req.inviteCode)
                          ELSE inviteCodes
        /\ resp' = [op |-> "createBooking", code |-> out.code, msg |-> out.msg]
        /\ storageAccessed' = CreateBookingReachesStorage(req)
        /\ UNCHANGED <<payments, properties, avail, summary, today, inflight, report,
                       notificationService, notifications>>

\* Service.UpdateBooking: keys refreshed before PutItem
UpdateBooking(booking) ==
    [booking EXCEPT !.gsi1pk = booking.propertyId,
                    !.gsi1sk = FormatDate(booking.checkIn)]

\* a variant that compares the dates only when both are supplied
UpdateBookingOutcomeBothDatesOnly(id, req) ==
    IF ~Exists(id) THEN [code |-> 404, msg |-> "Booking not found", booking |-> 0]
    ELSE IF /\ req.caller.role # "admin"
            /\ ~IsAuthorizedForProperty(req.caller.phone, bookings[id].propertyId)
            /\ bookings[id].bookedBy # req.caller.phone
    THEN [code |-> 403, msg |-> "Insufficient permissions to update this booking",
          booking |-> 0]
    ELSE
    LET b0 == bookings[id]
        b1 == IF req.pricePerNight.set
              THEN [b0 EXCEPT !.pricePerNight = req.pricePerNight.val] ELSE b0
        b2 == IF req.totalAmount.set
              THEN [b1 EXCEPT !.totalAmount = req.totalAmount.val] ELSE b1
    IN  IF ~(req.checkIn.set \/ req.checkOut.set)
        THEN [code |-> 200, msg |-> "", booking |-> b2]
        ELSE IF req.checkIn.set /\ ~ParseDate(req.checkIn.val).ok
        THEN [code |-> 400, msg |-> "Invalid checkIn date format", booking |-> 0]
        ELSE IF req.checkOut.set /\ ~ParseDate(req.checkOut.val).ok
        THEN [code |-> 400, msg |-> "Invalid checkOut date format", booking |-> 0]
        ELSE
        LET checkIn  == IF req.checkIn.set THEN ParseDate(req.checkIn.val).day
                        ELSE b2.checkIn
            checkOut == IF req.checkOut.set THEN ParseDate(req.checkOut.val).day
                        ELSE b2.checkOut
            datesChanged == checkIn # b2.checkIn \/ checkOut # b2.checkOut
            b3 == IF datesChanged
                  THEN [b2 EXCEPT !.checkIn = checkIn, !.checkOut = checkOut,
                                  !.numNights = checkOut - checkIn]
                  ELSE b2
            \* the availability check is made when the dates changed; its
            \* answer does not change what the handler does next
            available == datesChanged =>
                            CheckAvailability(bookings, b3.propertyId, b3.checkIn,
                                              b3.checkOut, NoClock, NoClock)
        IN  IF req.checkIn.set /\ req.checkOut.set /\ ~(checkOut > checkIn)
            THEN [code |-> 400, msg |-> "Check-out must be after check-in", booking |-> 0]
            ELSE IF ~available THEN [code |-> 200, msg |-> "", booking |-> b3]
            ELSE [code |-> 200, msg |-> "", booking |-> b3]

\* Handler.HandleUpdateBooking: the HTTP status and the item to be saved
UpdateBookingOutcome(id, req) ==
    IF ~Exists(id) THEN [code |-> 404, msg |-> "Booking not found", booking |-> 0]
    ELSE IF /\ req.caller.role # "admin"
            /\ ~IsAuthorizedForProperty(req.caller.phone, bookings[id].propertyId)
            /\ bookings[id].bookedBy # req.caller.phone
    THEN [code |-> 403, msg |-> "Insufficient permissions to update this booking",
          booking |-> 0]
    ELSE
    LET b0 == bookings[id]
        b1 == IF req.pricePerNight.set
              THEN [b0 EXCEPT !.pricePerNight = req.pricePerNight.val] ELSE b0
        b2 == IF req.totalAmount.set
              THEN [b1 EXCEPT !.totalAmount = req.totalAmount.val] ELSE b1
    IN  IF ~(req.checkIn.set \/ req.checkOut.set)
        THEN [code |-> 200, msg |-> "", booking |-> b2]
        ELSE IF req.checkIn.set /\ ~ParseDate(req.checkIn.val).ok
        THEN [code |-> 400, msg |-> "Invalid checkIn date format", booking |-> 0]
        ELSE IF req.checkOut.set /\ ~ParseDate(req.checkOut.val).ok
        THEN [code |-> 400, msg |-> "Invalid checkOut date format", booking |-> 0]
        ELSE
        LET checkIn  == IF req.checkIn.set THEN ParseDate(req.checkIn.val).day
                        ELSE b2.checkIn
            checkOut == IF req.checkOut.set THEN ParseDate(req.checkOut.val).day
                        ELSE b2.checkOut
            datesChanged == checkIn # b2.checkIn \/ checkOut # b2.checkOut
            b3 == IF datesChanged
                  THEN [b2 EXCEPT !.checkIn = checkIn, !.checkOut = checkOut,
                                  !.numNights = checkOut - checkIn]
                  ELSE b2
            \* the availability check is made when the dates changed; its
            \* answer does not change what the handler does next
            available == datesChanged =>
                            CheckAvailability(bookings, b3.propertyId, b3.checkIn,
                                              b3.checkOut, NoClock, NoClock)
        IN  IF ~(checkOut > checkIn)
            THEN [code |-> 400, msg |-> "Check-out must be after check-in", booking |-> 0]
            ELSE IF ~available THEN [code |-> 200, msg |-> "", booking |-> b3]
            ELSE [code |-> 200, msg |-> "", booking |-> b3]

\* PATCH /bookings/{id}
HandleUpdateBooking(id, req) ==
    \E out \in {UpdateBookingOutcome(id, req)} :
        /\ bookings' = IF out.code = 200
                       THEN [bookings EXCEPT ![id] = UpdateBooking(out.booking)]
                       ELSE bookings
        /\ resp' = [op |-> "updateBooking", code |-> out.code, msg |-> out.msg]
        /\ storageAccessed' = TRUE
        /\ UNCHANGED <<payments, properties, avail, summary, today, inflight, report,
                       notificationService, inviteCodes, dispatches, notifications>>

\* Service.UpdateBookingStatus: UpdateItem with SET #status = :status and no
\* condition expression, which DynamoDB applies to the item under the key or,
\* when there is none, to a new item holding only the key and the SET
\* attributes.  An id that is not in the table takes the next free place.
UpdateBookingStatus(store, id, status) ==
    IF id \in DOMAIN store THEN [store EXCEPT ![id].status = status]
    ELSE Append(store, Booking("", 0, 0, NoClock, NoClock, 0, 0, status))

\* Service.CancelBooking, called on its own; code 0 stands for the nil error
\* the call returns
CancelBooking(id) ==
    /\ id \in 1..(Len(bookings) + 1) /\ id <= MaxBookings
    /\ bookings' = UpdateBookingStatus(bookings, id, StatusCancelled)
    /\ resp' = [op |-> "cancelBooking", code |-> 0, msg |-> ""]
    /\ UNCHANGED <<payments, properties, avail, summary, today, inflight, report, storageAccessed,
                   notificationService, inviteCodes, dispatches, notifications>>

\* Service.ConfirmBooking, called on its own
ConfirmBooking(id) ==
    /\ id \in 1..(Len(bookings) + 1) /\ id <= MaxBookings
    /\ bookings' = UpdateBookingStatus(bookings, id, StatusSettled)
    /\ resp' = [op |-> "confirmBooking", code |-> 0, msg |-> ""]
    /\ UNCHANGED <<payments, properties, avail, summary, today, inflight, report, storageAccessed,
                   notificationService, inviteCodes, dispatches, notifications>>

\* Service.SettleBooking: the item it writes back, built from the item it read
SettledItem(booking) ==
    [booking EXCEPT !.advanceAmount = booking.totalAmount, !.status = StatusSettled]

\* Service.SettleBooking, called on its own: GetBooking, then PutItem of the
\* whole item; code 1 stands for a non-nil error
SettleBooking(id) ==
    /\ id \in 1..MaxBookings
    /\ bookings' = IF Exists(id) THEN [bookings EXCEPT ![id] = SettledItem(bookings[id])]
                   ELSE bookings
    /\ resp' = IF Exists(id) THEN [op |-> "settleBooking", code |-> 0, msg |-> ""]
               ELSE [op |-> "settleBooking", code |-> 1, msg |-> "booking not found"]
    /\ UNCHANGED <<payments, properties, avail, summary, today, inflight, report, storageAccessed,
                   notificationService, inviteCodes, dispatches, notifications>>

\* Handler.HandleUpdateBookingStatus up to the status write: the response
UpdateBookingStatusOutcome(id, caller, status) ==
    IF ~IsValid(status) THEN Response(400, "Invalid status")
    ELSE IF ~Exists(id) THEN Response(404, "Booking not found")
    ELSE IF /\ caller.role # "admin" /\ caller.role # "owner"
            /\ ~IsAuthorizedForProperty(caller.phone, bookings[id].propertyId)
            /\ bookings[id].bookedBy # caller.phone
    THEN Response(403, "Insufficient permissions to update this booking")
    ELSE Response(200, "")

\* PATCH /bookings/{id}/status
HandleUpdateBookingStatus(id, caller, status) ==
    \E out \in {UpdateBookingStatusOutcome(id, caller, status)} :
        /\ (out.code = 200 /\ notificationService) => Len(dispatches) < MaxDispatches
        /\ bookings' = IF out.code = 200 THEN UpdateBookingStatus(bookings, id, status)
                       ELSE bookings
        /\ dispatches' = IF out.code = 200 /\ notificationService
                         THEN Append(dispatches,
                                     Dispatch("statusChange", statusToNotificationType(status),
                                              id, bookings[id].propertyId, caller.phone,
                                              bookings[id].bookedBy, ""))
                         ELSE dispatches
        /\ resp' = [op |-> "updateBookingStatus", code |-> out.code, msg |-> out.msg]
        /\ storageAccessed' = IsValid(status)
        /\ UNCHANGED <<payments, properties, avail, summary, today, inflight, report,
                       notificationService, inviteCodes, notifications>>

\* a variant that leaves out the notification to the booking's creator
DispatchWritesOwnerOnly(d, lookupOk, ownerWriteOk, creatorWriteOk) ==
    IF d.kind = "created"
    THEN IF ownerWriteOk
         THEN <<Notification(d.ownerId, d.notifType, d.bookingId, d.propertyId)>>
         ELSE <<>>
    ELSE IF ~(lookupOk /\ d.propertyId \in DOMAIN properties) THEN <<>>
    ELSE IF d.updater # properties[d.propertyId].ownerId /\ ownerWriteOk
    THEN <<Notification(properties[d.propertyId].ownerId, d.notifType, d.bookingId,
                        d.propertyId)>>
    ELSE <<>>

\* the notifications a goroutine writes, given which of its calls succeed
DispatchWrites(d, lookupOk, ownerWriteOk, creatorWriteOk) ==
    IF d.kind = "created"
    THEN IF ownerWriteOk
         THEN <<Notification(d.ownerId, d.notifType, d.bookingId, d.propertyId)>>
         ELSE <<>>
    ELSE IF ~(lookupOk /\ d.propertyId \in DOMAIN properties) THEN <<>>
    ELSE LET ownerId == properties[d.propertyId].ownerId
             toOwner == IF d.updater # ownerId /\ ownerWriteOk
                        THEN <<Notification(ownerId, d.notifType, d.bookingId, d.propertyId)>>
                        ELSE <<>>
             toCreator == IF /\ d.bookedBy # "" /\ d.bookedBy # d.updater
                             /\ d.bookedBy # ownerId /\ creatorWriteOk
                          THEN <<Notification(d.bookedBy, d.notifType, d.bookingId,
                                              d.propertyId)>>
                          ELSE <<>>
         IN  toOwner \o toCreator

\* a variant run inside the request, which answers 500 when a call fails
RunDispatchSurfacingErrors(i, lookupOk, ownerWriteOk, creatorWriteOk) ==
    /\ i \in DOMAIN dispatches
    /\ dispatches[i].state = "started"
    /\ notifications' = notifications \o DispatchWrites(dispatches[i], lookupOk,
                                                        ownerWriteOk, creatorWriteOk)
    /\ dispatches' = [dispatches EXCEPT ![i].state =
                         IF lookupOk /\ ownerWriteOk /\ creatorWriteOk
                         THEN "completed" ELSE "failed"]
    /\ resp' = IF lookupOk /\ ownerWriteOk /\ creatorWriteOk THEN resp
               ELSE [resp EXCEPT !.code = 500, !.msg = "Failed to send notification"]
    /\ UNCHANGED <<bookings, payments, properties, avail, summary, today, inflight, report, storageAccessed,
                   notificationService, inviteCodes>>

\* the goroutine of dispatch i runs to its end; each call it makes (GetProperty,
\* the two CreateBookingNotification) succeeds or fails, and errors are dropped
RunDispatch(i, lookupOk, ownerWriteOk, creatorWriteOk) ==
    /\ i \in DOMAIN dispatches
    /\ dispatches[i].state = "started"
    /\ notifications' = notifications \o DispatchWrites(dispatches[i], lookupOk,
                                                        ownerWriteOk, creatorWriteOk)
    /\ dispatches' = [dispatches EXCEPT ![i].state =
                         IF lookupOk /\ ownerWriteOk /\ creatorWriteOk
                         THEN "completed" ELSE "failed"]
    /\ UNCHANGED <<bookings, payments, properties, resp, avail, summary, today, inflight, report, storageAccessed,
                   notificationService, inviteCodes>>

\* Handler.HandleUpdateProperty: the response, and the property to be saved
UpdatePropertyOutcome(id, caller, req) ==
    IF id \notin DOMAIN properties
    THEN [code |-> 404, msg |-> "Property not found", property |-> 0]
    ELSE IF properties[id].ownerId # caller.phone /\ caller.role # "admin"
    THEN [code |-> 403, msg |-> "You don't own this property", property |-> 0]
    ELSE LET p0 == properties[id]
             p1 == IF req.pricePerNight.set
                   THEN [p0 EXCEPT !.pricePerNight = req.pricePerNight.val] ELSE p0
             p2 == IF req.isActive.set THEN [p1 EXCEPT !.isActive = req.isActive.val] ELSE p1
         IN  [code |-> 200, msg |-> "", property |-> p2]

\* PATCH /properties/{id}
HandleUpdateProperty(id, caller, req) ==
    \E out \in {UpdatePropertyOutcome(id, caller, req)} :
        /\ properties' = IF out.code = 200 THEN [properties EXCEPT ![id] = out.property]
                         ELSE properties
        /\ resp' = [op |-> "updateProperty", code |-> out.code, msg |-> out.msg]
        /\ storageAccessed' = TRUE
        /\ UNCHANGED <<bookings, payments, avail, summary, today, inflight, report>>
        /\ UNCHANGED <<notificationService, inviteCodes, dispatches, notifications>>

----------------------------------------------------------------------------
(* Payments *)

PaymentStatusPending == "pending"
PaymentStatusDue == "due"
PaymentStatusCompleted == "completed"

PaymentMethodIsValid(m) == m \in {"cash", "upi", "bank_transfer", "cheque", "other"}

\* Service.GetPaymentsByBooking: the payment items under PAYMENT#<bookingID>
GetPaymentsByBooking(pays, bookingID) ==
    IF bookingID \in DOMAIN pays THEN pays[bookingID] ELSE <<>>

\* a variant of the summation loop that stops after the first entry
SumAmountsFirstOnly(ps, i, totalPaid) ==
    IF i > Len(ps) THEN totalPaid ELSE totalPaid + ps[i]

RECURSIVE SumAmounts(_, _, _)
\* the summation loop: totalPaid += payment.Amount for payments i..Len
SumAmounts(ps, i, totalPaid) ==
    IF i > Len(ps) THEN totalPaid ELSE SumAmounts(ps, i + 1, totalPaid + ps[i])

\* a variant that counts a booking as completed only when it is overpaid
CalculatePaymentStatusOverpaidOnly(store, pays, bookingID) ==
    IF bookingID \notin DOMAIN store
    THEN [found |-> FALSE, summary |-> NoSummary]
    ELSE
    LET booking == store[bookingID]
        ps == GetPaymentsByBooking(pays, bookingID)
        totalPaid == SumAmounts(ps, 1, 0)
        totalDue == booking.totalAmount - totalPaid
        status == IF Len(ps) = 0 THEN PaymentStatusPending
                  ELSE IF totalPaid > booking.totalAmount THEN PaymentStatusCompleted
                  ELSE PaymentStatusDue
    IN  [found |-> TRUE,
         summary |-> [bookingId |-> bookingID,
                      totalAmount |-> booking.totalAmount,
                      totalPaid |-> totalPaid,
                      totalDue |-> IF status = PaymentStatusCompleted THEN 0 ELSE totalDue,
                      status |-> status,
                      paymentCount |-> Len(ps)]]

\* Service.CalculatePaymentStatus; found = FALSE is the "booking not found" error
CalculatePaymentStatus(store, pays, bookingID) ==
    IF bookingID \notin DOMAIN store
    THEN [found |-> FALSE, summary |-> NoSummary]
    ELSE
    LET booking == store[bookingID]
        ps == GetPaymentsByBooking(pays, bookingID)
        totalPaid == SumAmounts(ps, 1, 0)
        totalDue == booking.totalAmount - totalPaid
        status == IF Len(ps) = 0 THEN PaymentStatusPending
                  ELSE IF totalPaid >= booking.totalAmount THEN PaymentStatusCompleted
                  ELSE PaymentStatusDue
    IN  [found |-> TRUE,
         summary |-> [bookingId |-> bookingID,
                      totalAmount |-> booking.totalAmount,
                      totalPaid |-> totalPaid,
                      totalDue |-> IF status = PaymentStatusCompleted THEN 0 ELSE totalDue,
                      status |-> status,
                      paymentCount |-> Len(ps)]]

PaymentStatusPartial == "partial"
PaymentStatusSettled == "settled"

\* Service.CalculatePaymentStatus in the variant that derives the payment
\* status from the booking's advance amount
CalculatePaymentStatusAdvance(store, bookingID) ==
    IF bookingID \notin DOMAIN store
    THEN [found |-> FALSE, summary |-> NoSummary]
    ELSE
    LET booking == store[bookingID]
        totalPaid == booking.advanceAmount
        totalDue == booking.totalAmount - totalPaid
        status == IF totalPaid <= 0 THEN PaymentStatusPending
                  ELSE IF totalPaid >= booking.totalAmount THEN PaymentStatusSettled
                  ELSE PaymentStatusPartial
    IN  [found |-> TRUE,
         summary |-> [bookingId |-> bookingID,
                      totalAmount |-> booking.totalAmount,
                      totalPaid |-> totalPaid,
                      totalDue |-> IF status = PaymentStatusSettled THEN 0 ELSE totalDue,
                      status |-> status]]

\* Service.LogPayment: a new item under a fresh payment id
LogPayment(pays, bookingID, amount) ==
    [pays EXCEPT ![bookingID] = Append(pays[bookingID], amount)]

\* Handler.HandleLogPayment: the response of the request
LogPaymentOutcome(bookingID, req) ==
    IF req.amount <= 0 THEN Response(400, "Amount must be greater than 0")
    ELSE IF ~PaymentMethodIsValid(req.method) THEN Response(400, "Invalid payment method")
    ELSE IF ~Exists(bookingID) THEN Response(404, "Booking not found")
    ELSE IF req.paymentDate # <<>> /\ ~ParseDate(req.paymentDate).ok
    THEN Response(400, "Invalid paymentDate format")
    ELSE Response(201, "")

\* Handler.HandleLogPayment: the amount and the method pass, after which the
\* handler calls GetBooking
LogPaymentReachesStorage(req) == req.amount > 0 /\ PaymentMethodIsValid(req.method)

\* the HTTP status of that response
LogPaymentStatus(bookingID, req) == LogPaymentOutcome(bookingID, req).code

\* POST /bookings/{id}/payments
HandleLogPayment(bookingID, req) ==
    \E out \in {LogPaymentOutcome(bookingID, req)} :
        /\ out.code = 201 => Len(payments[bookingID]) < MaxPayments
        /\ payments' = IF out.code = 201 THEN LogPayment(payments, bookingID, req.amount)
                       ELSE payments
        /\ summary' = IF out.code = 201
                      THEN CalculatePaymentStatus(bookings, payments', bookingID).summary
                      ELSE summary
        /\ resp' = [op |-> "logPayment", code |-> out.code, msg |-> out.msg]
        /\ storageAccessed' = LogPaymentReachesStorage(req)
        /\ UNCHANGED <<bookings, properties, avail, today, inflight, report>>
        /\ UNCHANGED <<notificationService, inviteCodes, dispatches, notifications>>

\* GET /bookings/{id}/payment-status
HandleGetPaymentStatus(bookingID) ==
    LET r == CalculatePaymentStatus(bookings, payments, bookingID)
    IN  /\ summary' = IF r.found THEN r.summary ELSE summary
        /\ resp' = [op |-> "getPaymentStatus", code |-> IF r.found THEN 200 ELSE 500,
                    msg |-> IF r.found THEN ""
                            ELSE "Failed to calculate payment status: booking not found"]
        /\ storageAccessed' = TRUE
        /\ UNCHANGED <<bookings, payments, properties, avail, today, inflight, report>>
        /\ UNCHANGED <<notificationService, inviteCodes, dispatches, notifications>>

----------------------------------------------------------------------------
(* Analytics *)

\* the reporting period of the analytics calls, and the window of the
\* dashboard: 30 days back and 60 days forward
PeriodStart == 1
PeriodEnd == 120
DashboardBack == 30
DashboardForward == 60

\* properties.Service.ListPropertiesByOwner: Query on GSI1PK = OWNER#<ownerID>
ListPropertiesByOwner(ownerID) == {p \in DOMAIN properties : properties[p].ownerId = ownerID}

RECURSIVE SumOver(_, _)
\* the accumulation x += f[id] over the ids of a loop
SumOver(ids, f) ==
    IF ids = {} THEN 0
    ELSE LET id == CHOOSE i \in ids : TRUE IN f[id] + SumOver(ids \ {id}, f)

\* the bookings the per-property loops go through: ListBookingsByProperty of
\* each property, a failed listing taking the `continue' branch
ListedBookings(props, start, end, failedListings) ==
    UNION {ListBookingsByProperty(bookings, p, start, end) : p \in props \ failedListings}

\* TotalPaid of CalculatePaymentStatus for each stored booking
TotalPaidOf == [id \in DOMAIN bookings |-> CalculatePaymentStatus(bookings, payments, id).summary.totalPaid]

\* the aggregate an analytics call starts from, with the failures it will meet
EmptyReport(op, phone, propsOk, userOk, failedListings, failedLookups) ==
    [NoReport EXCEPT !.op = op, !.ok = TRUE, !.phone = phone, !.propsOk = propsOk,
                     !.userOk = userOk,
                     !.failedListings = failedListings, !.failedLookups = failedLookups]

\* a variant that gives up when a lookup inside the loops fails
GetOwnerAnalyticsAborting(ownerID, propsOk, failedListings, failedLookups) ==
    LET props == ListPropertiesByOwner(ownerID)
        listed == ListedBookings(props, PeriodStart, PeriodEnd, {})
        totalRevenue == SumOver(listed, [id \in listed |-> bookings[id].totalAmount])
        totalCollected == SumOver(listed, TotalPaidOf)
        start == EmptyReport("ownerAnalytics", ownerID, propsOk, TRUE, failedListings, failedLookups)
    IN  IF ~propsOk \/ props \cap failedListings # {} \/ listed \cap failedLookups # {}
        THEN [start EXCEPT !.ok = FALSE]
        ELSE [start EXCEPT !.totalBookings = Cardinality(listed),
                           !.totalRevenue = totalRevenue,
                           !.totalCollected = totalCollected,
                           !.totalPending = totalRevenue - totalCollected]

\* analytics.Service.GetOwnerAnalytics: an error only when the owner's
\* properties cannot be listed; a failed listing skips the property, a failed
\* payment lookup leaves the booking counted and adds nothing to the collected
\* amount
GetOwnerAnalytics(ownerID, propsOk, failedListings, failedLookups) ==
    LET props == ListPropertiesByOwner(ownerID)
        listed == ListedBookings(props, PeriodStart, PeriodEnd, failedListings)
        totalRevenue == SumOver(listed, [id \in listed |-> bookings[id].totalAmount])
        totalCollected == SumOver(listed \ failedLookups, TotalPaidOf)
        start == EmptyReport("ownerAnalytics", ownerID, propsOk, TRUE, failedListings, failedLookups)
    IN  IF ~propsOk THEN [start EXCEPT !.ok = FALSE]
        ELSE [start EXCEPT !.totalBookings = Cardinality(listed),
                           !.totalRevenue = totalRevenue,
                           !.totalCollected = totalCollected,
                           !.totalPending = totalRevenue - totalCollected]

\* the partition key "AGENT#" + agentPhone (a booking's gsi1pk stands for
\* "PROPERTY#" + propertyId)
AgentKey(agentPhone) ==
    IF agentPhone = "agent1" THEN "AGENT#agent1"
    ELSE IF agentPhone = "agent2" THEN "AGENT#agent2"
    ELSE "AGENT#"

\* analytics.Service.GetAgentAnalytics: Query on GSI1PK = AGENT#<phone>, a key
\* no booking item carries (CreateBooking writes GSI1PK = PROPERTY#<id>); a
\* failed query returns the empty aggregate
GetAgentAnalytics(agentPhone, queryOk, failedLookups) ==
    LET items == IF queryOk
                 THEN {id \in DOMAIN bookings : bookings[id].gsi1pk = AgentKey(agentPhone)}
                 ELSE {}
        inPeriod == {id \in items : ~(bookings[id].checkIn < PeriodStart
                                      \/ bookings[id].checkIn > PeriodEnd)}
        start == EmptyReport("agentAnalytics", agentPhone, queryOk, TRUE, {}, failedLookups)
    IN  [start EXCEPT !.totalBookings = Cardinality(inPeriod),
                      !.totalRevenue = SumOver(inPeriod, [id \in inPeriod |-> bookings[id].totalAmount]),
                      !.totalCollected = SumOver(inPeriod \ failedLookups, TotalPaidOf)]

\* the bookings GetDashboardStats counts a pending payment for
DashboardPending(listed, failedLookups) ==
    {id \in listed \ failedLookups :
        /\ bookings[id].status # StatusCancelled
        /\ CalculatePaymentStatus(bookings, payments, id).summary.status
              # PaymentStatusCompleted}

\* analytics.Service.GetDashboardStats: the properties the user owns (none when
\* that listing fails) and manages (none when the user lookup fails)
GetDashboardStats(phone, propsOk, userOk, failedListings, failedLookups) ==
    LET owned == IF propsOk THEN ListPropertiesByOwner(phone) ELSE {}
        managed == IF userOk /\ phone \in DOMAIN Users
                   THEN Users[phone].managedProperties ELSE {}
        listed == ListedBookings(owned \cup managed, today - DashboardBack,
                                 today + DashboardForward, failedListings)
        pending == DashboardPending(listed, failedLookups)
        start == EmptyReport("dashboardStats", phone, propsOk, userOk, failedListings, failedLookups)
    IN  [start EXCEPT
            !.todayCheckIns = Cardinality({id \in listed : bookings[id].checkIn = today}),
            !.todayCheckOuts = Cardinality({id \in listed : bookings[id].checkOut = today}),
            !.pendingApprovals =
                Cardinality({id \in listed : bookings[id].status = StatusPending}),
            !.pendingPayments = Cardinality(pending),
            !.totalDueAmount = SumOver(pending,
                [id \in pending |->
                    CalculatePaymentStatus(bookings, payments, id).summary.totalDue])]

\* GET /analytics/owner, /analytics/agent and /analytics/dashboard
CallGetOwnerAnalytics(ownerID, propsOk, failedListings, failedLookups) ==
    /\ report' = GetOwnerAnalytics(ownerID, propsOk, failedListings, failedLookups)
    /\ UNCHANGED <<bookings, payments, properties, resp, avail, summary, today, inflight,
                   storageAccessed, notificationService, inviteCodes, dispatches,
                   notifications>>

CallGetAgentAnalytics(agentPhone, queryOk, failedLookups) ==
    /\ report' = GetAgentAnalytics(agentPhone, queryOk, failedLookups)
    /\ UNCHANGED <<bookings, payments, properties, resp, avail, summary, today, inflight,
                   storageAccessed, notificationService, inviteCodes, dispatches,
                   notifications>>

CallGetDashboardStats(phone, propsOk, userOk, failedListings, failedLookups) ==
    /\ report' = GetDashboardStats(phone, propsOk, userOk, failedListings, failedLookups)
    /\ UNCHANGED <<bookings, payments, properties, resp, avail, summary, today, inflight,
                   storageAccessed, notificationService, inviteCodes, dispatches,
                   notifications>>

----------------------------------------------------------------------------
(* The handlers step by step: one step per storage call or group of reads,   *)
(* so that the steps of different requests interleave                        *)

\* HandleCreateBooking up to the availability check (GetProperty and the
\* query of CheckAvailability); a request that passes goes on to its invite
\* code, or straight to the write when it has none
CreateBegin(p, req) ==
    /\ inflight[p] = Idle
    /\ \E out \in {CreateBookingOutcome([req EXCEPT !.inviteCode = ""])} :
          /\ inflight' = IF out.code # 201 THEN inflight
                         ELSE [inflight EXCEPT ![p] =
                                  [pc |-> IF req.inviteCode = "" THEN "persist"
                                          ELSE "validateCode",
                                   kind |-> "create", req |-> req]]
          /\ resp' = IF out.code # 201
                     THEN [op |-> "createBooking", code |-> out.code, msg |-> out.msg]
                     ELSE resp
    /\ storageAccessed' = CreateBookingReachesStorage(req)
    /\ UNCHANGED <<bookings, payments, properties, avail, summary, today, report,
                   notificationService, dispatches, notifications, inviteCodes>>

\* ValidateInviteCode and the property comparison that follows it
CreateValidateCode(p) ==
    /\ inflight[p].pc = "validateCode"
    /\ LET req == inflight[p].req
           err == ValidateInviteCode(req.inviteCode)
           msg == IF err # "" THEN err
                  ELSE IF inviteCodes[req.inviteCode].propertyId # req.propertyId
                  THEN "Invite code is for a different property"
                  ELSE ""
       IN  /\ inflight' = [inflight EXCEPT ![p] =
                              IF msg # "" THEN Idle ELSE [@ EXCEPT !.pc = "useCode"]]
           /\ resp' = IF msg # "" THEN [op |-> "createBooking", code |-> 400, msg |-> msg]
                      ELSE resp
    /\ UNCHANGED <<bookings, payments, properties, avail, summary, today, report,
                   storageAccessed, notificationService, dispatches, notifications,
                   inviteCodes>>

\* UseInviteCode, whose error the handler discards
CreateUseCode(p, useOk) ==
    /\ inflight[p].pc = "useCode"
    /\ inviteCodes' = IF useOk THEN UseInviteCode(inflight[p].req.inviteCode)
                      ELSE inviteCodes
    /\ inflight' = [inflight EXCEPT ![p].pc = "persist"]
    /\ UNCHANGED <<bookings, payments, properties, resp, avail, summary, today, report,
                   storageAccessed, notificationService, dispatches, notifications>>

\* a variant whose write is refused when the range has been taken meanwhile
CreatePersistRechecking(p, putOk) ==
    /\ inflight[p].pc = "persist"
    /\ LET req == inflight[p].req
           free == CheckAvailability(bookings, req.propertyId, ParseDate(req.checkIn).day,
                                     ParseDate(req.checkOut).day, NoClock, NoClock)
       IN  /\ (putOk /\ free) => NextId <= MaxBookings
           /\ bookings' = IF putOk /\ free
                          THEN Append(bookings, CreateBooking(CreateBookingItem(req)))
                          ELSE bookings
           /\ resp' = IF putOk /\ free THEN [op |-> "createBooking", code |-> 201, msg |-> ""]
                      ELSE [op |-> "createBooking", code |-> 500,
                            msg |-> "Failed to create booking"]
    /\ inflight' = [inflight EXCEPT ![p] = Idle]
    /\ UNCHANGED <<payments, properties, avail, summary, today, report, storageAccessed,
                   notificationService, dispatches, notifications, inviteCodes>>

\* Service.CreateBooking: PutItem of the new booking, unconditional; a failed
\* write is answered 500
CreatePersist(p, putOk) ==
    /\ inflight[p].pc = "persist"
    /\ LET req == inflight[p].req
       IN  /\ putOk => NextId <= MaxBookings
           /\ (putOk /\ notificationService) => Len(dispatches) < MaxDispatches
           /\ bookings' = IF putOk
                          THEN Append(bookings, CreateBooking(CreateBookingItem(req)))
                          ELSE bookings
           /\ dispatches' = IF putOk /\ notificationService
                            THEN Append(dispatches,
                                        Dispatch("created", TypeBookingCreated, NextId,
                                                 req.propertyId, req.caller.phone,
                                                 req.caller.phone,
                                                 properties[req.propertyId].ownerId))
                            ELSE dispatches
           /\ resp' = IF putOk THEN [op |-> "createBooking", code |-> 201, msg |-> ""]
                      ELSE [op |-> "createBooking", code |-> 500,
                            msg |-> "Failed to create booking"]
    /\ inflight' = [inflight EXCEPT ![p] = Idle]
    /\ UNCHANGED <<payments, properties, avail, summary, today, report, storageAccessed,
                   notificationService, notifications, inviteCodes>>

\* HandleUpdateBooking up to the save: GetBooking, the permission check, the
\* requested changes applied to the item read, the date checks; a request that
\* passes holds the changed item until its save
UpdateBegin(p, id, req) ==
    /\ inflight[p] = Idle
    /\ \E out \in {UpdateBookingOutcome(id, req)} :
          /\ inflight' = IF out.code # 200 THEN inflight
                         ELSE [inflight EXCEPT ![p] =
                                  [pc |-> "save", kind |-> "update", id |-> id,
                                   read |-> bookings[id], booking |-> out.booking]]
          /\ resp' = IF out.code # 200
                     THEN [op |-> "updateBooking", code |-> out.code, msg |-> out.msg]
                     ELSE resp
    /\ storageAccessed' = TRUE
    /\ UNCHANGED <<bookings, payments, properties, avail, summary, today, report,
                   notificationService, dispatches, notifications, inviteCodes>>

\* Service.UpdateBooking: PutItem of the whole item the handler holds; a failed
\* write is answered 500
UpdateSave(p, putOk) ==
    /\ inflight[p].pc = "save" /\ inflight[p].kind = "update"
    /\ LET id == inflight[p].id
       IN  /\ bookings' = IF putOk
                          THEN [bookings EXCEPT ![id] = UpdateBooking(inflight[p].booking)]
                          ELSE bookings
           /\ resp' = IF putOk THEN [op |-> "updateBooking", code |-> 200, msg |-> ""]
                      ELSE [op |-> "updateBooking", code |-> 500,
                            msg |-> "Failed to update booking"]
    /\ inflight' = [inflight EXCEPT ![p] = Idle]
    /\ UNCHANGED <<payments, properties, avail, summary, today, report, storageAccessed,
                   notificationService, dispatches, notifications, inviteCodes>>

\* SettleBooking up to its write: GetBooking and the two assignments
SettleBegin(p, id) ==
    /\ inflight[p] = Idle
    /\ inflight' = IF ~Exists(id) THEN inflight
                   ELSE [inflight EXCEPT ![p] =
                            [pc |-> "save", kind |-> "settle", id |-> id,
                             read |-> bookings[id], booking |-> SettledItem(bookings[id])]]
    /\ resp' = IF ~Exists(id)
               THEN [op |-> "settleBooking", code |-> 1, msg |-> "booking not found"]
               ELSE resp
    /\ UNCHANGED <<bookings, payments, properties, avail, summary, today, report,
                   storageAccessed, notificationService, dispatches, notifications,
                   inviteCodes>>

\* SettleBooking's PutItem of the whole item; its error is returned as it is
SettleSave(p, putOk) ==
    /\ inflight[p].pc = "save" /\ inflight[p].kind = "settle"
    /\ bookings' = IF putOk
                   THEN [bookings EXCEPT ![inflight[p].id] = inflight[p].booking]
                   ELSE bookings
    /\ resp' = IF putOk THEN [op |-> "settleBooking", code |-> 0, msg |-> ""]
               ELSE [op |-> "settleBooking", code |-> 1, msg |-> "PutItem failed"]
    /\ inflight' = [inflight EXCEPT ![p] = Idle]
    /\ UNCHANGED <<payments, properties, avail, summary, today, report, storageAccessed,
                   notificationService, dispatches, notifications, inviteCodes>>

----------------------------------------------------------------------------
(* Specification Spec: booking requests handled one at a time *)

\* sample dates: 2026-02-03, and 2026-05-06 and 2026-05-08 more than 90 days
\* later; 2026-02-01 lies before "today"
BookingDates == {3, 95, 97}
PastDate == {1}
BadDateText == <<2026, 2, 30>>

CreateReq(propertyId, guestName, checkIn, checkOut, pricePerNight, totalAmount) ==
    [propertyId |-> propertyId, guestName |-> guestName, guestPhone |-> "9998887776",
     checkIn |-> checkIn, checkOut |-> checkOut,
     pricePerNight |-> pricePerNight, totalAmount |-> totalAmount,
     caller |-> Caller("agent1", "agent"), inviteCode |-> ""]

UpdateReq(checkIn, checkOut, pricePerNight, totalAmount) ==
    [checkIn |-> checkIn, checkOut |-> checkOut,
     pricePerNight |-> pricePerNight, totalAmount |-> totalAmount,
     caller |-> Caller("owner1", "owner")]

CreateRequests ==
    {CreateReq("p1", "guest", FormatDate(a), FormatDate(b), 0, 0) :
        a \in BookingDates \cup PastDate, b \in BookingDates}
    \cup {CreateReq("p2", "guest", FormatDate(3), FormatDate(95), 0, 0),
          CreateReq("p1", "", FormatDate(3), FormatDate(95), 0, 0),
          CreateReq("p1", "guest", BadDateText, FormatDate(95), 0, 0),
          CreateReq("p1", "guest", FormatDate(3), <<>>, 0, 0),
          CreateReq("p9", "guest", FormatDate(3), FormatDate(95), 0, 0)}

UpdateDateTexts == {NoText} \cup {Some(FormatDate(d)) : d \in BookingDates}

UpdateRequests ==
    {UpdateReq(a, b, None, None) : a \in UpdateDateTexts, b \in UpdateDateTexts}
    \cup {UpdateReq(Some(BadDateText), NoText, None, None),
          UpdateReq(NoText, Some(BadDateText), None, None)}

StatusRequests == {StatusCancelled, StatusPending, "checked_in"}

BookingIds == 1..MaxBookings

Init ==
    /\ bookings = <<>>
    /\ payments = NoPayments
    /\ properties = InitProperties
    /\ resp = NoResp
    /\ avail = NoAvail
    /\ summary = NoSummary
    /\ today = 3
    /\ notificationService = FALSE
    /\ inviteCodes = InitInviteCodes
    /\ inflight = NoRequests
    /\ report = NoReport
    /\ storageAccessed = FALSE
    /\ dispatches = <<>>
    /\ notifications = <<>>

Next ==
    \/ \E req \in CreateRequests : HandleCreateBooking(req)
    \/ \E id \in BookingIds, req \in UpdateRequests : HandleUpdateBooking(id, req)
    \/ \E id \in BookingIds, status \in StatusRequests :
          HandleUpdateBookingStatus(id, Caller("owner1", "owner"), status)

Spec == Init /\ [][Next]_vars

----------------------------------------------------------------------------
(* Claims on booking creation and update, under Spec *)

\* a create request that passes every check made before the availability check
WellFormedCreate(req) ==
    /\ req.propertyId \in DOMAIN properties
    /\ properties[req.propertyId].isActive
    /\ req.guestName # "" /\ req.guestPhone # ""
    /\ req.checkIn \in {FormatDate(d) : d \in BookingDates \cup PastDate}
    /\ req.checkOut \in {FormatDate(d) : d \in BookingDates \cup PastDate}
    /\ ParseDate(req.checkIn).day >= today
    /\ ParseDate(req.checkIn).day < ParseDate(req.checkOut).day

\* stored booking b and the date range share at least one night
SharesNight(b, checkIn, checkOut) == checkIn < b.checkOut /\ checkOut > b.checkIn

\* C1: whenever HandleCreateBooking handles a request whose range overlaps an
\* existing non-cancelled booking of the same property by at least one night,
\* it answers 409 Conflict and persists no booking.
C1_OverlapRejected ==
    [][\A req \in CreateRequests :
          (/\ HandleCreateBooking(req)
           /\ WellFormedCreate(req)
           /\ \E id \in DOMAIN bookings :
                 /\ bookings[id].propertyId = req.propertyId
                 /\ bookings[id].status # StatusCancelled
                 /\ SharesNight(bookings[id], ParseDate(req.checkIn).day,
                                ParseDate(req.checkOut).day))
          => (resp'.code = 409 /\ bookings' = bookings)]_vars

\* the date range an update request asks for: supplied dates replace stored ones
RequestedCheckIn(id, req) ==
    IF req.checkIn.set THEN ParseDate(req.checkIn.val).day ELSE bookings[id].checkIn

RequestedCheckOut(id, req) ==
    IF req.checkOut.set THEN ParseDate(req.checkOut.val).day ELSE bookings[id].checkOut

\* an update request for a stored booking that changes its dates to a valid range
DateChange(id, req) ==
    /\ Exists(id)
    /\ req.checkIn.set => ParseDate(req.checkIn.val).ok
    /\ req.checkOut.set => ParseDate(req.checkOut.val).ok
    /\ RequestedCheckIn(id, req) < RequestedCheckOut(id, req)
    /\ \/ RequestedCheckIn(id, req) # bookings[id].checkIn
       \/ RequestedCheckOut(id, req) # bookings[id].checkOut

\* C7: whenever HandleUpdateBooking handles a date change whose new range
\* shares a night with another non-cancelled booking of the same property,
\* the update is refused and the stored booking keeps its previous dates.
C7_DateChangeRevalidated ==
    [][\A id \in BookingIds, req \in UpdateRequests :
          (/\ HandleUpdateBooking(id, req)
           /\ DateChange(id, req)
           /\ \E other \in DOMAIN bookings \ {id} :
                 /\ bookings[other].propertyId = bookings[id].propertyId
                 /\ bookings[other].status # StatusCancelled
                 /\ SharesNight(bookings[other], RequestedCheckIn(id, req),
                                RequestedCheckOut(id, req)))
          => (resp'.code # 200 /\ bookings' = bookings)]_vars

----------------------------------------------------------------------------
(* Specification SpecPay: stays of four nights and the payments logged on them *)

\* the stay 2026-02-01 -> 2026-02-05 at 5000 a night, with the total left to
\* the service or supplied by the caller, and the stay that follows it
PayCreateRequests ==
    {CreateReq("p1", "guest", FormatDate(1), FormatDate(5), 0, t) : t \in {0, 0 - 5000}}
    \cup {CreateReq("p1", "guest", FormatDate(5), FormatDate(9), 0, 0)}

PayUpdateRequests == {UpdateReq(NoText, NoText, None, Some(0 - 5000))}

LogPaymentReq(amount, method, paymentDate) ==
    [amount |-> amount, method |-> method, paymentDate |-> paymentDate]

LogPaymentRequests ==
    {LogPaymentReq(a, "cash", <<>>) : a \in {10000, 25000, 0}}
    \cup {LogPaymentReq(10000, "card", <<>>),
          LogPaymentReq(10000, "upi", BadDateText)}

InitPay ==
    /\ bookings = <<>>
    /\ payments = NoPayments
    /\ properties = InitProperties
    /\ resp = NoResp
    /\ avail = NoAvail
    /\ summary = NoSummary
    /\ today = 1
    /\ notificationService = FALSE
    /\ inviteCodes = InitInviteCodes
    /\ inflight = NoRequests
    /\ report = NoReport
    /\ storageAccessed = FALSE
    /\ dispatches = <<>>
    /\ notifications = <<>>

NextPay ==
    \/ \E req \in PayCreateRequests : HandleCreateBooking(req)
    \/ \E id \in BookingIds, req \in PayUpdateRequests : HandleUpdateBooking(id, req)
    \/ \E id \in BookingIds, req \in LogPaymentRequests : HandleLogPayment(id, req)
    \/ \E id \in BookingIds : HandleGetPaymentStatus(id)

SpecPay == InitPay /\ [][NextPay]_vars

----------------------------------------------------------------------------
(* Claims on the payment summary, under SpecPay *)

RECURSIVE AmountSum(_)
\* the sum of a sequence of amounts
AmountSum(ps) == IF ps = <<>> THEN 0 ELSE Head(ps) + AmountSum(Tail(ps))

\* the last request returned a summary computed from the present store
SummaryReturned ==
    \/ resp.op = "logPayment" /\ resp.code = 201
    \/ resp.op = "getPaymentStatus" /\ resp.code = 200

SummaryTotal == bookings[summary.bookingId].totalAmount
SummaryEntries == payments[summary.bookingId]

\* C8: a returned summary is PENDING exactly when the booking has no payment
\* entries, COMPLETED exactly when it has at least one entry and the entries
\* sum to the booking total or more, and DUE otherwise; on a total of 20000 one
\* payment of 10000 gives DUE with 10000 due and a second gives COMPLETED with 0.
C8_StatusClassification ==
    SummaryReturned =>
        /\ summary.status \in {PaymentStatusPending, PaymentStatusCompleted, PaymentStatusDue}
        /\ summary.status = PaymentStatusPending <=> Len(SummaryEntries) = 0
        /\ summary.status = PaymentStatusCompleted <=>
              (Len(SummaryEntries) >= 1 /\ AmountSum(SummaryEntries) >= SummaryTotal)
        /\ (SummaryTotal = 20000 /\ SummaryEntries = <<10000>>) =>
              (summary.status = PaymentStatusDue /\ summary.totalDue = 10000)
        /\ (SummaryTotal = 20000 /\ SummaryEntries = <<10000, 10000>>) =>
              (summary.status = PaymentStatusCompleted /\ summary.totalDue = 0)

\* the four-night stay at 5000 paid off by a second payment of 10000
C8_Witness ==
    /\ resp.op = "logPayment" /\ resp.code = 201
    /\ bookings[summary.bookingId].numNights = 4
    /\ bookings[summary.bookingId].pricePerNight = 5000
    /\ SummaryTotal = 20000
    /\ SummaryEntries = <<10000, 10000>>
    /\ summary.status = PaymentStatusCompleted
    /\ summary.totalDue = 0

\* C9: in every reachable state a returned summary has
\* totalDue = max(0, booking total - sum of payment amounts), never negative.
C9_DueIsClamped ==
    SummaryReturned =>
        /\ summary.totalDue >= 0
        /\ summary.totalDue = IF SummaryTotal - AmountSum(SummaryEntries) > 0
                              THEN SummaryTotal - AmountSum(SummaryEntries)
                              ELSE 0

\* C10: each successfully logged payment on a booking leaves totalPaid no
\* smaller and totalDue no larger than the summary had them before the payment
\* (the booking total is not changed by logging a payment).
C10_PaymentsMonotone ==
    [][\A id \in BookingIds, req \in LogPaymentRequests :
          (HandleLogPayment(id, req) /\ resp'.code = 201)
          => LET before == CalculatePaymentStatus(bookings, payments, id).summary
             IN  /\ bookings'[id].totalAmount = bookings[id].totalAmount
                 /\ summary'.totalPaid >= before.totalPaid
                 /\ summary'.totalDue <= before.totalDue]_vars

\* the orderings of a sequence of payment entries
Reorderings(ps) ==
    {[i \in 1..Len(ps) |-> ps[f[i]]] :
        f \in {g \in [1..Len(ps) -> 1..Len(ps)] : \A a, b \in 1..Len(ps) : g[a] = g[b] => a = b}}

C20_MissingBookingNotFound ==
    [][\A id \in BookingIds \ DOMAIN bookings :
          HandleGetPaymentStatus(id) => (resp'.code = 404 /\ summary' = summary)]_vars

----------------------------------------------------------------------------
(* Claims on stored bookings, under Spec; no request of Spec supplies a total *)

\* C12: every persisted booking whose total was never supplied by a caller has
\* totalAmount = nightly price * nights, with nights the whole-day difference
\* between check-out and check-in, after creation and after any date change.
C12_TotalIsPriceTimesNights ==
    \A id \in DOMAIN bookings :
        /\ bookings[id].numNights = bookings[id].checkOut - bookings[id].checkIn
        /\ bookings[id].totalAmount = bookings[id].pricePerNight * bookings[id].numNights

\* a create request with every required field and two well-formed dates
DatedCreate(req) ==
    /\ req.propertyId # "" /\ req.guestName # "" /\ req.guestPhone # ""
    /\ req.checkIn # <<>> /\ req.checkOut # <<>>
    /\ ParseDate(req.checkIn).ok /\ ParseDate(req.checkOut).ok

\* an update request for a stored booking that supplies at least one date, well-formed
DatedUpdate(id, req) ==
    /\ Exists(id)
    /\ req.checkIn.set \/ req.checkOut.set
    /\ req.checkIn.set => ParseDate(req.checkIn.val).ok
    /\ req.checkOut.set => ParseDate(req.checkOut.val).ok

\* C13: every persisted booking has its check-out strictly after its check-in;
\* in every state, a create or update request whose resulting check-out would
\* be equal to or earlier than the check-in (updates may supply one date only)
\* is answered 400; and a request answered 400 writes nothing.
C13_CheckOutAfterCheckIn ==
    /\ [](/\ \A id \in DOMAIN bookings : bookings[id].checkOut > bookings[id].checkIn
          /\ \A req \in CreateRequests :
                (DatedCreate(req) /\ ParseDate(req.checkOut).day <= ParseDate(req.checkIn).day)
                => CreateBookingOutcome(req).code = 400
          /\ \A id \in BookingIds, req \in UpdateRequests :
                (DatedUpdate(id, req) /\ RequestedCheckOut(id, req) <= RequestedCheckIn(id, req))
                => UpdateBookingOutcome(id, req).code = 400)
    /\ [][resp'.code = 400 => bookings' = bookings]_vars

\* an update was just refused for its date order while a booking is stored
\* whose own dates, with one of them replaced, would be out of order
C13_Witness ==
    /\ resp.op = "updateBooking" /\ resp.code = 400
    /\ resp.msg = "Check-out must be after check-in"
    /\ \E id \in DOMAIN bookings : bookings[id].checkIn = 95 /\ bookings[id].checkOut = 97

----------------------------------------------------------------------------
(* Specification SpecProp: properties taken off and put back on the market *)

PropCallers == {Caller("owner1", "owner"), Caller("agent1", "agent"), Caller("admin1", "admin")}

UpdatePropertyReq(isActive, pricePerNight) ==
    [isActive |-> isActive, pricePerNight |-> pricePerNight]

UpdatePropertyRequests ==
    {UpdatePropertyReq([set |-> TRUE, val |-> v], None) : v \in BOOLEAN}
    \cup {UpdatePropertyReq([set |-> FALSE, val |-> FALSE], Some(7000))}

PropCreateRequests ==
    {CreateReq(p, "guest", FormatDate(r[1]), FormatDate(r[2]), 0, 0) :
        p \in {"p1", "p2"}, r \in {<<3, 5>>, <<5, 7>>}}

InitProp ==
    /\ bookings = <<>>
    /\ payments = NoPayments
    /\ properties = InitProperties
    /\ resp = NoResp
    /\ avail = NoAvail
    /\ summary = NoSummary
    /\ today = 3
    /\ notificationService = FALSE
    /\ inviteCodes = InitInviteCodes
    /\ inflight = NoRequests
    /\ report = NoReport
    /\ storageAccessed = FALSE
    /\ dispatches = <<>>
    /\ notifications = <<>>

NextProp ==
    \/ \E req \in PropCreateRequests : HandleCreateBooking(req)
    \/ \E id \in {"p1", "p2", "p9"}, caller \in PropCallers, req \in UpdatePropertyRequests :
          HandleUpdateProperty(id, caller, req)

SpecProp == InitProp /\ [][NextProp]_vars

\* C14: in every state a well-formed booking request for a property whose
\* active flag is false is answered 400 "Property is not active"; a create
\* request that is not answered 201 persists nothing; and every booking that
\* is created is on a property that was active when the request was handled.
C14_InactivePropertyRejected ==
    /\ [](\A req \in PropCreateRequests :
             ~properties[req.propertyId].isActive
             => /\ CreateBookingOutcome(req).code = 400
                /\ CreateBookingOutcome(req).msg = "Property is not active")
    /\ [][/\ (resp'.op = "createBooking" /\ resp'.code # 201) => bookings' = bookings
          /\ Len(bookings') > Len(bookings)
             => properties[bookings'[Len(bookings')].propertyId].isActive]_vars

\* a property with a stored booking was taken off the market and the next
\* request for it was refused
C14_Witness ==
    /\ resp.op = "createBooking" /\ resp.code = 400 /\ resp.msg = "Property is not active"
    /\ ~properties["p1"].isActive
    /\ \E id \in DOMAIN bookings : bookings[id].propertyId = "p1"

----------------------------------------------------------------------------
(* Specification SpecStatus: status changes through the handler and through *)
(* the service's own entry points, notifications switched off               *)

StatusCreateRequests ==
    {CreateReq("p1", "guest", FormatDate(r[1]), FormatDate(r[2]), 0, 0) :
        r \in {<<3, 5>>, <<4, 6>>, <<5, 7>>}}

StatusCallers == {Caller("owner1", "owner"), Caller("agent1", "agent"), Caller("agent2", "agent")}

StatusValues == {StatusCancelled, StatusSettled, StatusPending, "checked_in"}

InitStatus ==
    /\ bookings = <<>>
    /\ payments = NoPayments
    /\ properties = InitProperties
    /\ resp = NoResp
    /\ avail = NoAvail
    /\ summary = NoSummary
    /\ today = 3
    /\ notificationService = FALSE
    /\ inviteCodes = InitInviteCodes
    /\ inflight = NoRequests
    /\ report = NoReport
    /\ storageAccessed = FALSE
    /\ dispatches = <<>>
    /\ notifications = <<>>

NextStatus ==
    \/ \E req \in StatusCreateRequests : HandleCreateBooking(req)
    \/ \E id \in BookingIds, caller \in StatusCallers, status \in StatusValues :
          HandleUpdateBookingStatus(id, caller, status)
    \/ \E id \in BookingIds : CancelBooking(id)
    \/ \E id \in BookingIds : ConfirmBooking(id)

SpecStatus == InitStatus /\ [][NextStatus]_vars

\* C15: a status update for an id with no stored booking reports failure or
\* not-found, creates no record and alters none, through the handler and
\* through UpdateBookingStatus as CancelBooking and ConfirmBooking call it.
C15_MissingIdChangesNothing ==
    [][\A id \in BookingIds \ DOMAIN bookings :
          /\ (CancelBooking(id) \/ ConfirmBooking(id))
             => (bookings' = bookings /\ resp'.code # 0)
          /\ \A caller \in StatusCallers, status \in StatusValues :
                HandleUpdateBookingStatus(id, caller, status)
                => (bookings' = bookings /\ resp'.code \in {400, 404})]_vars

\* C16: a booking in a terminal state (cancelled or settled) never makes
\* CheckAvailability answer false: the answer is the one given with the
\* terminal bookings taken out of the store.
C16_TerminalNeverBlocks ==
    \A req \in StatusCreateRequests :
        LET checkIn == ParseDate(req.checkIn).day
            checkOut == ParseDate(req.checkOut).day
            NonTerminal(b) == b.status \notin {StatusCancelled, StatusSettled}
        IN  CheckAvailability(bookings, req.propertyId, checkIn, checkOut, NoClock, NoClock)
            = CheckAvailability(SelectSeq(bookings, NonTerminal), req.propertyId,
                                checkIn, checkOut, NoClock, NoClock)

----------------------------------------------------------------------------
(* Specification SpecNotify: bookings made and status changes requested by   *)
(* the owner, agents and an admin, with the notification goroutines          *)

NotifyCreateRequests ==
    {[CreateReq("p1", "guest", FormatDate(3), FormatDate(5), 0, 0)
         EXCEPT !.caller = Caller("agent1", "agent")],
     [CreateReq("p1", "guest", FormatDate(5), FormatDate(7), 0, 0)
         EXCEPT !.caller = Caller("owner1", "owner")]}

NotifyCallers ==
    {Caller("owner1", "owner"), Caller("agent1", "agent"), Caller("agent2", "agent"),
     Caller("admin1", "admin")}

NotifyStatusValues == {StatusCancelled, StatusSettled, "no_show"}

InitNotify ==
    /\ bookings = <<>>
    /\ payments = NoPayments
    /\ properties = InitProperties
    /\ resp = NoResp
    /\ avail = NoAvail
    /\ summary = NoSummary
    /\ today = 3
    /\ notificationService \in BOOLEAN
    /\ inviteCodes = InitInviteCodes
    /\ inflight = NoRequests
    /\ report = NoReport
    /\ storageAccessed = FALSE
    /\ dispatches = <<>>
    /\ notifications = <<>>

NextNotify ==
    \/ \E req \in NotifyCreateRequests : HandleCreateBooking(req)
    \/ \E id \in BookingIds, caller \in NotifyCallers, status \in NotifyStatusValues :
          HandleUpdateBookingStatus(id, caller, status)
    \/ \E i \in 1..MaxDispatches, lookupOk \in BOOLEAN, ownerWriteOk \in BOOLEAN,
          creatorWriteOk \in BOOLEAN :
          RunDispatch(i, lookupOk, ownerWriteOk, creatorWriteOk)

SpecNotify == InitNotify /\ [][NextNotify]_vars

\* a step in which a status update was answered 200 (goroutine steps change
\* the state of a started dispatch, request steps do not)
StatusUpdated ==
    /\ resp'.op = "updateBookingStatus" /\ resp'.code = 200
    /\ \A i \in DOMAIN dispatches : dispatches'[i] = dispatches[i]

\* dispatch i is a status-change goroutine that runs in this step with its
\* property lookup and its writes succeeding
StatusDispatchCompletes(i) ==
    /\ dispatches[i].kind = "statusChange"
    /\ dispatches[i].state = "started"
    /\ dispatches'[i].state = "completed"

OwnerOf(d) == properties[d.propertyId].ownerId

\* C17: every successful status update starts a notification dispatch, and a
\* dispatch that completes writes a notification describing the change for the
\* property's owner and, when the booking's creator is not the owner, a second
\* one for that creator.
C17_OwnerAndCreatorNotified ==
    [][/\ StatusUpdated => Len(dispatches') = Len(dispatches) + 1
       /\ \A i \in DOMAIN dispatches :
             StatusDispatchCompletes(i) =>
                LET d == dispatches[i]
                IN  notifications' = notifications
                       \o <<Notification(OwnerOf(d), d.notifType, d.bookingId, d.propertyId)>>
                       \o (IF d.bookedBy # OwnerOf(d)
                           THEN <<Notification(d.bookedBy, d.notifType, d.bookingId,
                                               d.propertyId)>>
                           ELSE <<>>)]_vars

\* C17 as amended: with a notification service, every successful status update
\* starts one dispatch carrying the new status; a dispatch that completes
\* writes a notification for the owner unless the owner made the update, and
\* one for the creator when it is set and is neither the updater nor the owner.
C17_NotifiedUnlessUpdater ==
    [][/\ (StatusUpdated /\ notificationService) =>
             /\ Len(dispatches') = Len(dispatches) + 1
             /\ LET d == dispatches'[Len(dispatches')]
                IN  /\ d.kind = "statusChange" /\ d.state = "started"
                    /\ d.bookingId \in DOMAIN bookings
                    /\ d.notifType = statusToNotificationType(bookings'[d.bookingId].status)
                    /\ d.bookedBy = bookings[d.bookingId].bookedBy
                    /\ d.propertyId = bookings[d.bookingId].propertyId
       /\ \A i \in DOMAIN dispatches :
             StatusDispatchCompletes(i) =>
                LET d == dispatches[i]
                IN  notifications' = notifications
                       \o (IF d.updater # OwnerOf(d)
                           THEN <<Notification(OwnerOf(d), d.notifType, d.bookingId,
                                               d.propertyId)>>
                           ELSE <<>>)
                       \o (IF d.bookedBy \notin {"", d.updater, OwnerOf(d)}
                           THEN <<Notification(d.bookedBy, d.notifType, d.bookingId,
                                               d.propertyId)>>
                           ELSE <<>>)]_vars

\* an admin cancelled the agent's booking and both the owner and the agent
\* were notified
C17_Witness ==
    \E i \in DOMAIN dispatches :
        /\ dispatches[i].kind = "statusChange" /\ dispatches[i].state = "completed"
        /\ dispatches[i].updater = "admin1" /\ dispatches[i].bookedBy = "agent1"
        /\ \E k \in DOMAIN notifications :
              /\ k + 1 \in DOMAIN notifications
              /\ notifications[k] = Notification("owner1", "booking_cancelled",
                                                 dispatches[i].bookingId, "p1")
              /\ notifications[k + 1] = Notification("agent1", "booking_cancelled",
                                                     dispatches[i].bookingId, "p1")

\* C18: a status update is answered 200 with the new status stored while its
\* dispatch has only been started, and no step of a notification goroutine,
\* whatever succeeds or fails in it, changes the response or a stored booking.
C18_DispatchNeverFailsUpdate ==
    [][/\ (StatusUpdated /\ notificationService) =>
             LET d == dispatches'[Len(dispatches')]
             IN  /\ Len(dispatches') = Len(dispatches) + 1
                 /\ d.state = "started"
                 /\ statusToNotificationType(bookings'[d.bookingId].status) = d.notifType
       /\ (\E i \in DOMAIN dispatches : dispatches'[i].state # dispatches[i].state)
             => (resp' = resp /\ bookings' = bookings)]_vars

\* the caller was told the cancellation succeeded, the booking is cancelled,
\* and the notification goroutine of that update has failed
C18_Witness ==
    /\ resp.op = "updateBookingStatus" /\ resp.code = 200
    /\ dispatches # <<>>
    /\ LET d == dispatches[Len(dispatches)]
       IN  /\ d.kind = "statusChange" /\ d.state = "failed"
           /\ d.notifType = "booking_cancelled"
           /\ bookings[d.bookingId].status = StatusCancelled

----------------------------------------------------------------------------
(* Specification SpecInvite: agents book p1 with and without invite codes,   *)
(* and bookings are cancelled                                                *)

InviteDates == {<<3, 5>>, <<4, 6>>, <<5, 7>>}

InviteCodeTexts == {"", "once", "free", "old", "other", "nocode"}

InviteCreateRequests ==
    {[CreateReq("p1", "guest", FormatDate(r[1]), FormatDate(r[2]), 0, 0)
         EXCEPT !.inviteCode = c] : r \in InviteDates, c \in InviteCodeTexts}
    \cup {CreateReq("p1", "", FormatDate(3), FormatDate(5), 0, 0),
          CreateReq("p9", "guest", FormatDate(3), FormatDate(5), 0, 0)}

InitInvite ==
    /\ bookings = <<>>
    /\ payments = NoPayments
    /\ properties = InitProperties
    /\ resp = NoResp
    /\ avail = NoAvail
    /\ summary = NoSummary
    /\ today = 3
    /\ notificationService = FALSE
    /\ inviteCodes = InitInviteCodes
    /\ inflight = NoRequests
    /\ report = NoReport
    /\ storageAccessed = FALSE
    /\ dispatches = <<>>
    /\ notifications = <<>>

NextInvite ==
    \/ \E req \in InviteCreateRequests : HandleCreateBooking(req)
    \/ \E id \in BookingIds :
          HandleUpdateBookingStatus(id, Caller("owner1", "owner"), StatusCancelled)

SpecInvite == InitInvite /\ [][NextInvite]_vars

\* the request passes every check made before the availability check
ValidCreate(req) ==
    /\ req.propertyId \in DOMAIN properties
    /\ properties[req.propertyId].isActive
    /\ req.guestName # "" /\ req.guestPhone # ""
    /\ ParseDate(req.checkIn).ok /\ ParseDate(req.checkOut).ok
    /\ ParseDate(req.checkIn).day >= today
    /\ ParseDate(req.checkIn).day < ParseDate(req.checkOut).day

\* the request names an invite code that is past its expiry or has no use left
InviteExpiredOrExhausted(req) ==
    /\ req.inviteCode \in DOMAIN inviteCodes
    /\ inviteCodes[req.inviteCode].isActive
    /\ \/ today > inviteCodes[req.inviteCode].expiresAt
       \/ /\ inviteCodes[req.inviteCode].maxUses > 0
          /\ inviteCodes[req.inviteCode].usedCount >= inviteCodes[req.inviteCode].maxUses

\* the requested range is taken by a stored booking
Unavailable(req) ==
    ~CheckAvailability(bookings, req.propertyId, ParseDate(req.checkIn).day,
                       ParseDate(req.checkOut).day, NoClock, NoClock)

\* C19: whenever HandleCreateBooking handles a request that passes validation
\* for an existing, active property, it answers with the conflict outcome 409
\* if the range is unavailable or the invite code is expired or exhausted, and
\* it answers 409 to no other request.
C19_ConflictOutcome ==
    [][\A req \in InviteCreateRequests :
          HandleCreateBooking(req) =>
             (resp'.code = 409
                <=> (ValidCreate(req)
                     /\ (Unavailable(req) \/ InviteExpiredOrExhausted(req))))]_vars

\* the part of C19 about the availability check alone
C19_UnavailableIsConflict ==
    \A req \in InviteCreateRequests :
        (ValidCreate(req) /\ Unavailable(req)) <=> CreateBookingOutcome(req).code = 409

\* the request names a stored, active, unexpired code of its property and
\* passes every other check of the handler
UsableCode(req) ==
    /\ ValidCreate(req) /\ ~Unavailable(req)
    /\ req.inviteCode \in DOMAIN inviteCodes
    /\ inviteCodes[req.inviteCode].isActive
    /\ ~(today > inviteCodes[req.inviteCode].expiresAt)
    /\ inviteCodes[req.inviteCode].propertyId = req.propertyId

\* the use count of the request's code has reached a positive maxUses
UsesReached(req) ==
    /\ inviteCodes[req.inviteCode].maxUses > 0
    /\ inviteCodes[req.inviteCode].usedCount >= inviteCodes[req.inviteCode].maxUses

\* the part of C23 about rejection: an attempt with a usable code is rejected
\* as exhausted exactly when its use count has reached a positive maxUses,
\* and an attempt with an expired code creates nothing
InviteRejections(req) ==
    /\ (UsableCode(req) /\ UsesReached(req))
          => /\ resp'.code # 201 /\ bookings' = bookings
             /\ resp'.msg = "Invalid invite code: invite code has reached maximum uses"
    /\ (UsableCode(req) /\ ~UsesReached(req)) => resp'.code = 201
    /\ (req.inviteCode \in DOMAIN inviteCodes
        /\ today > inviteCodes[req.inviteCode].expiresAt)
          => (resp'.code # 201 /\ bookings' = bookings)

\* C23: with requests handled one at a time, every booking creation with an
\* invite code adds exactly one to that code's usedCount and leaves the other
\* codes alone; an attempt made when usedCount has reached a positive maxUses
\* is rejected as exhausted; a code with maxUses 0 is never rejected for its
\* use count; an attempt after the expiry is rejected.
C23_InviteLifecycle ==
    [][\A req \in InviteCreateRequests :
          (HandleCreateBooking(req) /\ req.inviteCode # "") =>
             /\ InviteRejections(req)
             /\ inviteCodes' =
                   IF resp'.code = 201
                   THEN [inviteCodes EXCEPT ![req.inviteCode].usedCount = @ + 1]
                   ELSE inviteCodes]_vars

\* the rejection part of C23 alone
C23_InviteRejections ==
    [][\A req \in InviteCreateRequests :
          (HandleCreateBooking(req) /\ req.inviteCode # "") => InviteRejections(req)]_vars

----------------------------------------------------------------------------
(* Specification SpecValidate: well-formed and malformed requests to the    *)
(* four handlers that validate their input                                   *)

ValidateCreateRequests ==
    {CreateReq("p1", "guest", FormatDate(3), FormatDate(5), 0, 0),
     CreateReq("p1", "guest", FormatDate(5), FormatDate(7), 0, 0),
     CreateReq("p1", "", FormatDate(3), FormatDate(5), 0, 0),
     CreateReq("p1", "guest", BadDateText, FormatDate(5), 0, 0),
     CreateReq("p1", "guest", FormatDate(3), BadDateText, 0, 0),
     CreateReq("p9", "guest", FormatDate(3), FormatDate(5), 0, 0)}

ValidateUpdateRequests ==
    {UpdateReq(NoText, Some(FormatDate(6)), None, None),
     UpdateReq(NoText, NoText, Some(7000), None),
     UpdateReq(Some(BadDateText), NoText, None, None),
     UpdateReq(NoText, Some(BadDateText), None, None)}

ValidateStatusValues == {StatusCancelled, StatusPending, "bogus"}

ValidateLogPaymentRequests ==
    {LogPaymentReq(10000, "cash", <<>>),
     LogPaymentReq(10000, "upi", FormatDate(3)),
     LogPaymentReq(0, "cash", <<>>),
     LogPaymentReq(10000, "card", <<>>),
     LogPaymentReq(10000, "upi", BadDateText)}

InitValidate ==
    /\ bookings = <<>>
    /\ payments = NoPayments
    /\ properties = InitProperties
    /\ resp = NoResp
    /\ avail = NoAvail
    /\ summary = NoSummary
    /\ today = 3
    /\ notificationService = FALSE
    /\ inviteCodes = InitInviteCodes
    /\ inflight = NoRequests
    /\ report = NoReport
    /\ storageAccessed = FALSE
    /\ dispatches = <<>>
    /\ notifications = <<>>

NextValidate ==
    \/ \E req \in ValidateCreateRequests : HandleCreateBooking(req)
    \/ \E id \in BookingIds, req \in ValidateUpdateRequests : HandleUpdateBooking(id, req)
    \/ \E id \in BookingIds, status \in ValidateStatusValues :
          HandleUpdateBookingStatus(id, Caller("owner1", "owner"), status)
    \/ \E id \in BookingIds, req \in ValidateLogPaymentRequests : HandleLogPayment(id, req)

SpecValidate == InitValidate /\ [][NextValidate]_vars

\* a creation request with a required field missing or a date that does not parse
MalformedCreate(req) ==
    \/ req.propertyId = "" \/ req.guestName = "" \/ req.guestPhone = ""
    \/ req.checkIn = <<>> \/ req.checkOut = <<>>
    \/ ~ParseDate(req.checkIn).ok \/ ~ParseDate(req.checkOut).ok

\* an update request with a date that does not parse
MalformedUpdate(req) ==
    \/ req.checkIn.set /\ ~ParseDate(req.checkIn.val).ok
    \/ req.checkOut.set /\ ~ParseDate(req.checkOut.val).ok

\* a payment request with a method outside the enum or a date that does not parse
MalformedLogPayment(req) ==
    \/ ~PaymentMethodIsValid(req.method)
    \/ req.paymentDate # <<>> /\ ~ParseDate(req.paymentDate).ok

\* C21: whenever one of HandleCreateBooking, HandleUpdateBooking,
\* HandleUpdateBookingStatus and HandleLogPayment handles a request with a
\* malformed date, a missing required field or an invalid enum value, it
\* answers 400 without having reached the storage layer, and stores nothing.
C21_RejectedBeforeStorage ==
    [][/\ \A req \in ValidateCreateRequests :
             (MalformedCreate(req) /\ HandleCreateBooking(req))
                => (resp'.code = 400 /\ ~storageAccessed')
       /\ \A id \in BookingIds, status \in ValidateStatusValues :
             (~IsValid(status)
              /\ HandleUpdateBookingStatus(id, Caller("owner1", "owner"), status))
                => (resp'.code = 400 /\ ~storageAccessed')
       /\ \A id \in BookingIds, req \in ValidateUpdateRequests :
             (MalformedUpdate(req) /\ HandleUpdateBooking(id, req))
                => (resp'.code = 400 /\ ~storageAccessed')
       /\ \A id \in BookingIds, req \in ValidateLogPaymentRequests :
             (MalformedLogPayment(req) /\ HandleLogPayment(id, req))
                => (resp'.code = 400 /\ ~storageAccessed')]_vars

\* the part of C21 about HandleCreateBooking and HandleUpdateBookingStatus
C21_CreateAndStatusRejectedBeforeStorage ==
    [][/\ \A req \in ValidateCreateRequests :
             (MalformedCreate(req) /\ HandleCreateBooking(req))
                => (resp'.code = 400 /\ ~storageAccessed')
       /\ \A id \in BookingIds, status \in ValidateStatusValues :
             (~IsValid(status)
              /\ HandleUpdateBookingStatus(id, Caller("owner1", "owner"), status))
                => (resp'.code = 400 /\ ~storageAccessed')]_vars

----------------------------------------------------------------------------
(* Specification SpecAnalytics: bookings and payments on two properties, and *)
(* analytics calls in which listings and payment lookups may fail            *)

AnalyticsCreateRequests ==
    {CreateReq("p1", "guest", FormatDate(3), FormatDate(5), 0, 0),
     CreateReq("p2", "guest", FormatDate(3), FormatDate(5), 0, 0)}

AnalyticsLogPaymentRequests == {LogPaymentReq(4000, "cash", <<>>)}

InitAnalytics ==
    /\ bookings = <<>>
    /\ payments = NoPayments
    /\ properties = [InitProperties EXCEPT !["p2"].isActive = TRUE]
    /\ resp = NoResp
    /\ avail = NoAvail
    /\ summary = NoSummary
    /\ today = 3
    /\ notificationService = FALSE
    /\ inviteCodes = InitInviteCodes
    /\ inflight = NoRequests
    /\ storageAccessed = FALSE
    /\ report = NoReport
    /\ dispatches = <<>>
    /\ notifications = <<>>

\* the lookups that fail during one analytics call
AnalyticsFailedListings == {{}, {"p1"}, {"p2"}}
AnalyticsFailedLookups == {{}, {1}, {2}}

NextAnalytics ==
    \/ \E req \in AnalyticsCreateRequests : HandleCreateBooking(req)
    \/ \E id \in BookingIds, req \in AnalyticsLogPaymentRequests : HandleLogPayment(id, req)
    \/ \E propsOk \in BOOLEAN, failedListings \in AnalyticsFailedListings,
          failedLookups \in AnalyticsFailedLookups :
          CallGetOwnerAnalytics("owner1", propsOk, failedListings, failedLookups)
    \/ \E queryOk \in BOOLEAN, failedLookups \in {{}, {1}} :
          CallGetAgentAnalytics("agent1", queryOk, failedLookups)
    \/ \E phone \in {"owner1", "agent1"}, looked \in {<<TRUE, TRUE>>, <<FALSE, TRUE>>},
          failedListings \in {{}, {"p1"}}, failedLookups \in {{}, {1}} :
          CallGetDashboardStats(phone, looked[1], looked[2], failedListings, failedLookups)

SpecAnalytics == InitAnalytics /\ [][NextAnalytics]_vars

\* the stored bookings of the given properties that check in within a window
BookingsOf(props, start, end) ==
    {id \in DOMAIN bookings :
        /\ bookings[id].propertyId \in props
        /\ start <= bookings[id].checkIn /\ bookings[id].checkIn <= end}

\* the properties whose bookings a report covers: those of the owner for the
\* owner report; those owned and managed, as far as known, for the dashboard
ReportProperties(r) ==
    IF r.op = "ownerAnalytics"
    THEN {p \in DOMAIN properties : properties[p].ownerId = r.phone}
    ELSE (IF r.propsOk THEN {p \in DOMAIN properties : properties[p].ownerId = r.phone}
          ELSE {})
         \cup (IF r.userOk THEN Users[r.phone].managedProperties ELSE {})

\* the bookings whose listing succeeded for a report
ReportListed(r) ==
    IF r.op = "ownerAnalytics"
    THEN BookingsOf(ReportProperties(r) \ r.failedListings, PeriodStart, PeriodEnd)
    ELSE BookingsOf(ReportProperties(r) \ r.failedListings, today - DashboardBack,
                    today + DashboardForward)

\* the report's figures are those of the bookings in `counted', with payment
\* figures taken from the bookings in `looked'
ReportComputedOver(r, counted, looked) ==
    LET revenue == SumOver(counted, [id \in counted |-> bookings[id].totalAmount])
        collected == SumOver(looked, [id \in looked |-> AmountSum(payments[id])])
        unpaid == {id \in looked : /\ bookings[id].status # StatusCancelled
                                   /\ ~(payments[id] # <<>>
                                        /\ AmountSum(payments[id]) >= bookings[id].totalAmount)}
    IN  IF r.op = "ownerAnalytics"
        THEN /\ r.totalBookings = Cardinality(counted)
             /\ r.totalRevenue = revenue
             /\ r.totalCollected = collected
             /\ r.totalPending = revenue - collected
        ELSE /\ r.todayCheckIns = Cardinality({id \in counted : bookings[id].checkIn = today})
             /\ r.pendingApprovals =
                   Cardinality({id \in counted : bookings[id].status = StatusPending})
             /\ r.pendingPayments = Cardinality(unpaid)
             /\ r.totalDueAmount =
                   SumOver(unpaid, [id \in unpaid |->
                               bookings[id].totalAmount - AmountSum(payments[id])])

----------------------------------------------------------------------------
(* Specification SpecRace: booking requests whose steps interleave           *)

RaceDates == {<<3, 5>>, <<4, 6>>}

RaceCreateRequests ==
    {[CreateReq("p1", "guest", FormatDate(r[1]), FormatDate(r[2]), 0, 0)
         EXCEPT !.inviteCode = c] : r \in RaceDates, c \in {"", "once"}}

InitRace ==
    /\ bookings = <<>>
    /\ payments = NoPayments
    /\ properties = InitProperties
    /\ resp = NoResp
    /\ avail = NoAvail
    /\ summary = NoSummary
    /\ today = 3
    /\ notificationService = FALSE
    /\ inviteCodes = InitInviteCodes
    /\ storageAccessed = FALSE
    /\ report = NoReport
    /\ inflight = NoRequests
    /\ dispatches = <<>>
    /\ notifications = <<>>

NextRace ==
    \/ \E p \in 1..MaxRequests, req \in RaceCreateRequests : CreateBegin(p, req)
    \/ \E p \in 1..MaxRequests : CreateValidateCode(p)
    \/ \E p \in 1..MaxRequests, useOk \in BOOLEAN : CreateUseCode(p, useOk)
    \/ \E p \in 1..MaxRequests, putOk \in BOOLEAN : CreatePersist(p, putOk)

SpecRace == InitRace /\ [][NextRace]_vars

\* two stored bookings of one property, neither cancelled, that
\* CheckAvailability would hold against each other
Conflicting(i, j) ==
    /\ i # j
    /\ bookings[i].propertyId = bookings[j].propertyId
    /\ bookings[i].status # StatusCancelled /\ bookings[j].status # StatusCancelled
    /\ BookingBlocks(bookings[i], bookings[j].checkIn, bookings[j].checkOut,
                     timeToMinutes(bookings[j].checkInTime, defaultCheckInMinutes),
                     timeToMinutes(bookings[j].checkOutTime, defaultCheckOutMinutes))

\* the write of process p stores its booking and is answered 201
PersistStores(p) ==
    /\ CreatePersist(p, TRUE)
    /\ resp'.code = 201
    /\ bookings' = Append(bookings, CreateBooking(CreateBookingItem(inflight[p].req)))

\* some stored booking now takes the dates process p asked for
TakenMeanwhile(p) ==
    ~CheckAvailability(bookings, inflight[p].req.propertyId,
                       ParseDate(inflight[p].req.checkIn).day,
                       ParseDate(inflight[p].req.checkOut).day, NoClock, NoClock)

\* C24: the availability check and the write are separate steps with nothing
\* held between them: a request that passed the check and waits for its write
\* can always have its booking stored, also when a booking stored since the
\* check takes its dates, so that two requests for overlapping dates can both
\* be stored.
C24_CheckThenPersistRace ==
    \A p \in 1..MaxRequests :
        (inflight[p].pc = "persist" /\ NextId <= MaxBookings) => ENABLED PersistStores(p)

\* a double booking: two pending bookings of p1 on overlapping nights
C24_Witness ==
    \E i \in DOMAIN bookings, j \in DOMAIN bookings :
        /\ Conflicting(i, j)
        /\ bookings[i].status = StatusPending /\ bookings[j].status = StatusPending
        /\ bookings[i].checkIn < bookings[j].checkOut
        /\ bookings[j].checkIn < bookings[i].checkOut

\* a request waits for its write while a stored booking has its dates
C24_PassedButTaken ==
    \E p \in 1..MaxRequests :
        inflight[p].pc = "persist" /\ NextId <= MaxBookings /\ TakenMeanwhile(p)

----------------------------------------------------------------------------
(* The set of bookings the availability check examines, under Spec *)

\* candidate ranges of the create and update requests of Spec
CandidateRanges == {r \in BookingDates \X BookingDates : r[1] < r[2]}

\* the bookings CheckAvailability fetches for a candidate range
ExaminedFor(propertyID, checkIn, checkOut) ==
    ListBookingsByProperty(bookings, propertyID,
        AddDate(checkIn, -LookbackDays), AddDate(checkOut, 1))

\* C25: every non-cancelled booking of the property whose span shares a night
\* with the candidate range is among the bookings CheckAvailability examines,
\* however long before the candidate's check-in it started, and the check
\* answers false for it.
C25_LongBookingExamined ==
    \A id \in DOMAIN bookings, r \in CandidateRanges :
        (/\ bookings[id].status # StatusCancelled
         /\ SharesNight(bookings[id], r[1], r[2]))
        => /\ id \in ExaminedFor(bookings[id].propertyId, r[1], r[2])
           /\ ~CheckAvailability(bookings, bookings[id].propertyId,
                                 r[1], r[2], NoClock, NoClock)

----------------------------------------------------------------------------
(* Specification SpecConc: one update or settle request in flight while      *)
(* status updates on the same bookings are handled                           *)

ConcCreateRequests ==
    {CreateReq("p1", "guest", FormatDate(3), FormatDate(95), 100, 0)}

ConcUpdateRequests ==
    {UpdateReq(NoText, NoText, Some(200), None),
     UpdateReq(NoText, Some(FormatDate(97)), None, None),
     UpdateReq(Some(BadDateText), NoText, None, None)}

ConcStatuses == {StatusCancelled, StatusPartial}

InitConc ==
    /\ bookings = <<>>
    /\ payments = NoPayments
    /\ properties = InitProperties
    /\ resp = NoResp
    /\ avail = NoAvail
    /\ summary = NoSummary
    /\ today = 3
    /\ notificationService = FALSE
    /\ inviteCodes = InitInviteCodes
    /\ inflight = NoRequests
    /\ report = NoReport
    /\ storageAccessed = FALSE
    /\ dispatches = <<>>
    /\ notifications = <<>>

NextConc ==
    \/ \E req \in ConcCreateRequests : HandleCreateBooking(req)
    \/ \E id \in BookingIds, status \in ConcStatuses :
          HandleUpdateBookingStatus(id, Caller("owner1", "owner"), status)
    \/ \E id \in BookingIds : Exists(id) /\ CancelBooking(id)
    \/ \E id \in BookingIds : Exists(id) /\ ConfirmBooking(id)
    \/ /\ inflight = NoRequests
       /\ \E p \in 1..MaxRequests, id \in BookingIds, req \in ConcUpdateRequests :
             UpdateBegin(p, id, req)
    \/ /\ inflight = NoRequests
       /\ \E p \in 1..MaxRequests, id \in BookingIds : SettleBegin(p, id)
    \/ \E p \in 1..MaxRequests, putOk \in BOOLEAN : UpdateSave(p, putOk)
    \/ \E p \in 1..MaxRequests, putOk \in BOOLEAN : SettleSave(p, putOk)

SpecConc == InitConc /\ [][NextConc]_vars

\* request p holds an item to save, and the stored status of that booking is
\* no longer the one the request read: a status update on the booking has
\* completed since (no other request is in flight under SpecConc)
StatusUpdatedInFlight(p) ==
    /\ inflight[p].pc = "save"
    /\ bookings[inflight[p].id].status # inflight[p].read.status

\* the stored item after the save of request p, when no completed write is lost
MergedItem(p) ==
    LET held == IF inflight[p].kind = "update" THEN UpdateBooking(inflight[p].booking)
                ELSE inflight[p].booking
    IN  [held EXCEPT !.status = bookings[inflight[p].id].status]

\* C26: when a status update on a booking completes while a HandleUpdateBooking
\* or SettleBooking request on the same booking is in flight, the stored
\* status after both have completed is the one the status update wrote, and
\* the detail changes of the other request are present as well.
C26_NoCompletedWriteLost ==
    [][\A p \in 1..MaxRequests :
          (/\ StatusUpdatedInFlight(p)
           /\ UpdateSave(p, TRUE) \/ SettleSave(p, TRUE))
          => bookings'[inflight[p].id] = MergedItem(p)]_vars

----------------------------------------------------------------------------
(* Specification SpecSeq: creations, status changes and detail updates,      *)
(* each request handled to its end before the next begins                    *)

SeqCreateRequests ==
    {CreateReq("p1", "guest", FormatDate(r[1]), FormatDate(r[2]), 100, t) :
        r \in RaceDates, t \in {0, 200}}

SeqUpdateRequests == {UpdateReq(NoText, NoText, None, Some(300))}

SeqStatuses == {StatusPending, StatusPartial, StatusSettled, StatusCancelled, "checked_in"}

InitSeq ==
    /\ bookings = <<>>
    /\ payments = NoPayments
    /\ properties = InitProperties
    /\ resp = NoResp
    /\ avail = NoAvail
    /\ summary = NoSummary
    /\ today = 3
    /\ notificationService = FALSE
    /\ inviteCodes = InitInviteCodes
    /\ inflight = NoRequests
    /\ report = NoReport
    /\ storageAccessed = FALSE
    /\ dispatches = <<>>
    /\ notifications = <<>>

NextSeq ==
    \/ \E req \in SeqCreateRequests : HandleCreateBooking(req)
    \/ \E id \in BookingIds, status \in SeqStatuses :
          HandleUpdateBookingStatus(id, Caller("owner1", "owner"), status)
    \/ \E id \in BookingIds : Exists(id) /\ CancelBooking(id)
    \/ \E id \in BookingIds : Exists(id) /\ ConfirmBooking(id)
    \/ \E id \in BookingIds : SettleBooking(id)
    \/ \E id \in BookingIds, req \in SeqUpdateRequests : HandleUpdateBooking(id, req)

SpecSeq == InitSeq /\ [][NextSeq]_vars

\* C27: with requests handled one at a time, after any sequence of creations
\* and status changes no two non-cancelled bookings of one property conflict
\* (date overlap net of the same-day-turnover tie-break).
C27_NoConflictingBookings ==
    \A i \in DOMAIN bookings, j \in DOMAIN bookings : ~Conflicting(i, j)

\* C30: where the booking status is the payment state, the stored status of
\* every non-cancelled booking is the status CalculatePaymentStatus derives
\* for it from the advance amount, after any sequence of creations, settles,
\* confirmations, status updates and detail updates.
C30_StatusAgreesWithPayments ==
    \A id \in DOMAIN bookings :
        bookings[id].status # StatusCancelled
        => bookings[id].status = CalculatePaymentStatusAdvance(bookings, id).summary.status

----------------------------------------------------------------------------
(* Invite codes under concurrent booking requests, under SpecRace *)

\* the stored bookings that were created with the code
CreatedWith(code) == {id \in DOMAIN bookings : bookings[id].inviteCode = code}

\* the use count of a limited code stays within its limit
UsedCountWithinLimit ==
    \A code \in DOMAIN inviteCodes :
        inviteCodes[code].maxUses > 0
        => inviteCodes[code].usedCount <= inviteCodes[code].maxUses

\* C28: for an invite code with maxUses > 0, usedCount never exceeds maxUses
\* and at most maxUses bookings are ever created with the code, also when
\* requests presenting the code are handled concurrently.
C28_CodeUsesBounded ==
    /\ UsedCountWithinLimit
    /\ \A code \in DOMAIN inviteCodes :
          inviteCodes[code].maxUses > 0
          => Cardinality(CreatedWith(code)) <= inviteCodes[code].maxUses

\* C29: consuming an invite code and persisting the booking that used it
\* succeed or fail together, so that once every request has been answered a
\* code's usedCount equals the number of persisted bookings created with it.
C29_UseAndPersistTogether ==
    inflight = NoRequests
    => \A code \in DOMAIN inviteCodes :
          inviteCodes[code].usedCount = Cardinality(CreatedWith(code))

====
